---- MODULE Spec2Model ----
(***************************************************************************)
(* Rocket Engine Studio: the physics/performance calculation engine of     *)
(* src/rocket_engine_ultimate.py (reference catalogs, performance formula  *)
(* library, deviation explainer, engine session) and the dashboard state   *)
(* that holds a session.                                                   *)
(*                                                                         *)
(* Numbers.  The program computes with Python floats; the model computes   *)
(* with scaled integers that stay inside TLC's 32-bit range:               *)
(*   dimensionless factors and efficiencies   1e-4      (FX = 10000)       *)
(*   O/F ratio                                1e-2                         *)
(*   gamma                                    1e-2                         *)
(*   chamber pressure                         bar (series: 1e-3 bar)       *)
(*   characteristic velocity                  1e-1 m/s                     *)
(*   areas                                    1e-9 m^2                     *)
(*   lengths, diameters                       1e-6 m                       *)
(*   thrust                                   1e-2 N                       *)
(*   mass flow                                1e-6 kg/s                    *)
(*   specific impulse                         1e-2 s                       *)
(*   deviations, percentages                  1e-2 percent                 *)
(* Fractional powers x ** e are tabulated (rounded to 1e-4) over the       *)
(* pressures and fluxes the model draws its inputs from; square roots are  *)
(* computed.  A Python exception is the `raised` field of a result.        *)
(***************************************************************************)
EXTENDS Integers, Sequences, FiniteSets, TLC

VARIABLES
    engine,     \* st.session_state.engine of each browser session
    pdf_data,   \* st.session_state.pdf_data of each browser session
    ctor,       \* per browser session: what its stored engine was constructed from
    rng,        \* numpy's process-global generator (np.random)
    thread,     \* per browser session: the script thread inside __init__
    ret,        \* what the last method call on a stored engine returned
    call        \* the last direct call of the library and what came of it

vars == <<engine, pdf_data, ctor, rng, thread, ret, call>>

----------------------------------------------------------------------------
(* Fixed-point helpers *)

FX == 100 * 100

Abs(x) == IF x < 0 THEN -x ELSE x

Min(a, b) == IF a < b THEN a ELSE b

Max(a, b) == IF a > b THEN a ELSE b

\* a * b / d rounded to nearest, without the intermediate product a * b
MulDiv(a, b, d) == (a \div d) * b + ((a % d) * b + d \div 2) \div d

RECURSIVE SqrtSearch(_, _, _)
SqrtSearch(n, lo, hi) ==
    IF lo >= hi THEN lo
    ELSE LET mid == (lo + hi + 1) \div 2
         IN  IF mid * mid <= n THEN SqrtSearch(n, mid, hi)
             ELSE SqrtSearch(n, lo, mid - 1)

\* floor(sqrt(n)), 0 <= n < 2^31
ISqrt(n) == SqrtSearch(n, 0, 46340)

\* sin of num/den of a turn, scaled by FX (Bhaskara's rational approximation
\* on whole degrees)
SinTurn(num, den) ==
    LET deg  == ((num % den) * 360) \div den
        x    == IF deg <= 180 THEN deg ELSE deg - 180
        p    == x * (180 - x)
        half == (4 * FX * p) \div (40500 - p)
    IN  IF deg <= 180 THEN half ELSE -half

\* A numpy array: the sequence with every element computed
Series(f) == SubSeq(f, 1, Len(f))

RECURSIVE SumSeq(_)
SumSeq(s) == IF s = <<>> THEN 0 ELSE Head(s) + SumSeq(Tail(s))

\* np.mean of a series
Mean(s) == SumSeq(s) \div Len(s)

\* np.std of a series (population standard deviation)
Std(s) ==
    LET m == Mean(s)
    IN  ISqrt(SumSeq(Series([i \in 1..Len(s) |-> (s[i] - m) * (s[i] - m)])) \div Len(s))

\* F(v) with v computed once, before F is entered
With(v, F(_)) == CHOOSE r \in {F(x) : x \in {v}} : TRUE

Ok(v) == [raised |-> "none", value |-> v]

Raise(e) == [raised |-> e, value |-> 0]

----------------------------------------------------------------------------
(* Reference catalogs *)

PROPELLANTS ==
    ("RP-1/LOX" :> [type |-> "Kerosene", optimal_of |-> 230, gamma_range |-> <<118, 122, 126>>, c_star |-> 1800, combustion_temp |-> 3700, toxicity |-> "Low", handling |-> "Easy", flight_heritage |-> "Extensive"]) @@
    ("Methane/LOX (CH4/LOX)" :> [type |-> "Methane", optimal_of |-> 350, gamma_range |-> <<120, 125, 130>>, c_star |-> 1900, combustion_temp |-> 3600, toxicity |-> "Very Low", handling |-> "Medium", flight_heritage |-> "Modern"]) @@
    ("Propane/LOX" :> [type |-> "Hydrocarbon", optimal_of |-> 300, gamma_range |-> <<119, 123, 127>>, c_star |-> 1750, combustion_temp |-> 3650, toxicity |-> "Low", handling |-> "Easy", flight_heritage |-> "Moderate"]) @@
    ("LH2/LOX" :> [type |-> "Hydrogen", optimal_of |-> 600, gamma_range |-> <<112, 115, 118>>, c_star |-> 2300, combustion_temp |-> 3500, toxicity |-> "None", handling |-> "Difficult", flight_heritage |-> "Extensive"]) @@
    ("Slush Hydrogen/LOX" :> [type |-> "Hydrogen", optimal_of |-> 600, gamma_range |-> <<110, 113, 116>>, c_star |-> 2350, combustion_temp |-> 3450, toxicity |-> "None", handling |-> "Very Difficult", flight_heritage |-> "Experimental"]) @@
    ("MMH/NTO" :> [type |-> "Hypergolic", optimal_of |-> 165, gamma_range |-> <<120, 124, 128>>, c_star |-> 1740, combustion_temp |-> 3400, toxicity |-> "Very High", handling |-> "Difficult", flight_heritage |-> "Extensive"]) @@
    ("UDMH/NTO" :> [type |-> "Hypergolic", optimal_of |-> 200, gamma_range |-> <<121, 125, 129>>, c_star |-> 1720, combustion_temp |-> 3450, toxicity |-> "Very High", handling |-> "Difficult", flight_heritage |-> "Extensive"]) @@
    ("Aerozine-50/NTO" :> [type |-> "Hypergolic", optimal_of |-> 190, gamma_range |-> <<120, 124, 128>>, c_star |-> 1760, combustion_temp |-> 3420, toxicity |-> "High", handling |-> "Difficult", flight_heritage |-> "Historical"]) @@
    ("H2O2/Kerosene" :> [type |-> "Green", optimal_of |-> 700, gamma_range |-> <<118, 122, 126>>, c_star |-> 1600, combustion_temp |-> 2800, toxicity |-> "Low", handling |-> "Medium", flight_heritage |-> "Limited"]) @@
    ("LNG/LOX" :> [type |-> "Methane", optimal_of |-> 340, gamma_range |-> <<119, 124, 129>>, c_star |-> 1850, combustion_temp |-> 3550, toxicity |-> "Very Low", handling |-> "Medium", flight_heritage |-> "Modern"]) @@
    ("Aluminum/Ice (ALICE)" :> [type |-> "Experimental", optimal_of |-> 120, gamma_range |-> <<115, 118, 121>>, c_star |-> 1400, combustion_temp |-> 3200, toxicity |-> "Medium", handling |-> "Difficult", flight_heritage |-> "Experimental"]) @@
    ("Hydrogen Peroxide (98%)" :> [type |-> "Monopropellant", optimal_of |-> 0, gamma_range |-> <<113, 113, 113>>, c_star |-> 1200, combustion_temp |-> 1100, toxicity |-> "Medium", handling |-> "Difficult", flight_heritage |-> "Historical"]) @@
    ("Hydrazine (N2H4)" :> [type |-> "Monopropellant", optimal_of |-> 0, gamma_range |-> <<120, 120, 120>>, c_star |-> 1300, combustion_temp |-> 1200, toxicity |-> "Very High", handling |-> "Very Difficult", flight_heritage |-> "Extensive"]) @@
    ("HTPB/AP (Solid)" :> [type |-> "Solid", optimal_of |-> 0, gamma_range |-> <<118, 122, 126>>, c_star |-> 1580, combustion_temp |-> 3400, toxicity |-> "Medium", handling |-> "Medium", flight_heritage |-> "Extensive", burn_rate |-> 80, pressure_exp |-> 30, density |-> 1800]) @@
    ("PBAN/AP (Solid)" :> [type |-> "Solid", optimal_of |-> 0, gamma_range |-> <<119, 123, 127>>, c_star |-> 1600, combustion_temp |-> 3450, toxicity |-> "Medium", handling |-> "Medium", flight_heritage |-> "Extensive", burn_rate |-> 75, pressure_exp |-> 32, density |-> 1750]) @@
    ("Double-Base (Solid)" :> [type |-> "Solid", optimal_of |-> 0, gamma_range |-> <<117, 121, 125>>, c_star |-> 1550, combustion_temp |-> 3300, toxicity |-> "Medium", handling |-> "Difficult", flight_heritage |-> "Extensive", burn_rate |-> 100, pressure_exp |-> 25, density |-> 1600]) @@
    ("APCP (Solid)" :> [type |-> "Solid", optimal_of |-> 0, gamma_range |-> <<120, 124, 128>>, c_star |-> 1620, combustion_temp |-> 3500, toxicity |-> "Medium", handling |-> "Medium", flight_heritage |-> "Extensive", burn_rate |-> 90, pressure_exp |-> 35, density |-> 1850]) @@
    ("HTPB/N2O (Hybrid)" :> [type |-> "Hybrid", optimal_of |-> 750, gamma_range |-> <<116, 119, 122>>, c_star |-> 1450, combustion_temp |-> 3200, toxicity |-> "Low", handling |-> "Easy", flight_heritage |-> "Moderate", regression_rate |-> 12, regression_exp |-> 80, fuel_density |-> 920]) @@
    ("HTPB/LOX (Hybrid)" :> [type |-> "Hybrid", optimal_of |-> 240, gamma_range |-> <<118, 122, 126>>, c_star |-> 1700, combustion_temp |-> 3600, toxicity |-> "Low", handling |-> "Medium", flight_heritage |-> "Experimental", regression_rate |-> 8, regression_exp |-> 70, fuel_density |-> 920]) @@
    ("Paraffin/N2O (Hybrid)" :> [type |-> "Hybrid", optimal_of |-> 800, gamma_range |-> <<115, 118, 121>>, c_star |-> 1480, combustion_temp |-> 3100, toxicity |-> "Very Low", handling |-> "Easy", flight_heritage |-> "Research", regression_rate |-> 25, regression_exp |-> 80, fuel_density |-> 900]) @@
    ("PE/LOX (Hybrid)" :> [type |-> "Hybrid", optimal_of |-> 260, gamma_range |-> <<117, 121, 125>>, c_star |-> 1680, combustion_temp |-> 3550, toxicity |-> "Very Low", handling |-> "Easy", flight_heritage |-> "Research", regression_rate |-> 7, regression_exp |-> 65, fuel_density |-> 950])

MATERIALS ==
    ("Copper (OFHC)" :> [erosion_rate |-> 50, yield_strength |-> 200, max_temp |-> 1350, cost |-> "Medium"]) @@
    ("Inconel 718" :> [erosion_rate |-> 20, yield_strength |-> 1034, max_temp |-> 1300, cost |-> "High"]) @@
    ("Tungsten-Copper (W-Cu)" :> [erosion_rate |-> 10, yield_strength |-> 800, max_temp |-> 3000, cost |-> "Very High"]) @@
    ("Silicon Carbide (SiC)" :> [erosion_rate |-> 5, yield_strength |-> 400, max_temp |-> 1900, cost |-> "High"]) @@
    ("Cobalt Superalloy" :> [erosion_rate |-> 30, yield_strength |-> 800, max_temp |-> 1150, cost |-> "Very High"]) @@
    ("Molybdenum (TZM)" :> [erosion_rate |-> 15, yield_strength |-> 600, max_temp |-> 2600, cost |-> "High"])

CYCLES ==
    ("Gas Generator" :> [efficiency |-> 92, complexity |-> "Medium", throttle_range |-> "70-105%", examples |-> "F-1, Merlin, Vulcain"]) @@
    ("Staged Combustion (Fuel-rich)" :> [efficiency |-> 96, complexity |-> "High", throttle_range |-> "50-110%", examples |-> "RD-180, SSME, BE-4"]) @@
    ("Staged Combustion (Oxidizer-rich)" :> [efficiency |-> 95, complexity |-> "Very High", throttle_range |-> "40-100%", examples |-> "RD-170, NK-33, Raptor"]) @@
    ("Expander Cycle" :> [efficiency |-> 94, complexity |-> "Medium-High", throttle_range |-> "30-110%", examples |-> "RL-10, LE-5, Vinci"]) @@
    ("Pressure Fed" :> [efficiency |-> 85, complexity |-> "Low", throttle_range |-> "20-100%", examples |-> "AJ-10, R-4D, SuperDraco"]) @@
    ("Electric Pump Fed" :> [efficiency |-> 93, complexity |-> "Medium", throttle_range |-> "10-100%", examples |-> "Rutherford, Curie"])

NOZZLE_TYPES ==
    ("Conical (15 deg)" :> [type |-> "Conical", divergence_efficiency |-> 960, length_factor |-> 10, manufacturing_cost |-> "Low", cooling_complexity |-> "Low"]) @@
    ("Bell (NASA-SP)" :> [type |-> "Bell", divergence_efficiency |-> 980, length_factor |-> 8, manufacturing_cost |-> "Medium", cooling_complexity |-> "Medium"]) @@
    ("Bell (Rao)" :> [type |-> "Bell", divergence_efficiency |-> 985, length_factor |-> 7, manufacturing_cost |-> "High", cooling_complexity |-> "High"]) @@
    ("C-D (Converging-Diverging)" :> [type |-> "C-D", divergence_efficiency |-> 970, length_factor |-> 12, manufacturing_cost |-> "Medium", cooling_complexity |-> "Medium"]) @@
    ("C-D (Short)" :> [type |-> "C-D", divergence_efficiency |-> 950, length_factor |-> 9, manufacturing_cost |-> "Low", cooling_complexity |-> "Low"]) @@
    ("C-D (Optimized)" :> [type |-> "C-D", divergence_efficiency |-> 975, length_factor |-> 11, manufacturing_cost |-> "High", cooling_complexity |-> "High"]) @@
    ("Aerospike (Linear)" :> [type |-> "Aerospike", divergence_efficiency |-> 990, length_factor |-> 6, manufacturing_cost |-> "Very High", cooling_complexity |-> "Very High"]) @@
    ("Aerospike (Annular)" :> [type |-> "Aerospike", divergence_efficiency |-> 990, length_factor |-> 5, manufacturing_cost |-> "Extremely High", cooling_complexity |-> "Extremely High"]) @@
    ("Dual-Bell" :> [type |-> "Dual-Bell", divergence_efficiency |-> 970, length_factor |-> 11, manufacturing_cost |-> "High", cooling_complexity |-> "High"]) @@
    ("Expansion-Deflection" :> [type |-> "ED", divergence_efficiency |-> 960, length_factor |-> 9, manufacturing_cost |-> "High", cooling_complexity |-> "Medium"])

\* The key sets of the four catalogs
PropellantKeys == DOMAIN PROPELLANTS

MaterialKeys == DOMAIN MATERIALS

CycleKeys == DOMAIN CYCLES

NozzleKeys == DOMAIN NOZZLE_TYPES

\* Keys that are in no catalog, for callers that pass one
UnknownPropellant == "Ammonia/Fluorine"

UnknownPropellantLOX == "Ethanol/LOX"

UnknownMaterial == "Unobtainium"

UnknownCycle == "Tap-Off"

UnknownNozzle == "Plug"

\* `word in props['type']`: over the catalog's type tags a tag holds the word
\* exactly when it is the word
TypeHas(type, word) == type = word

\* `sub in propellant` for the substrings the program tests a key for
KeyHas(key, sub) ==
    CASE sub = "LOX"  -> key \in {"RP-1/LOX", "Methane/LOX (CH4/LOX)", "Propane/LOX",
                                  "LH2/LOX", "Slush Hydrogen/LOX", "LNG/LOX",
                                  "HTPB/LOX (Hybrid)", "PE/LOX (Hybrid)",
                                  UnknownPropellantLOX}
      [] sub = "NTO"  -> key \in {"MMH/NTO", "UDMH/NTO", "Aerozine-50/NTO"}
      [] sub = "LH2"  -> key \in {"LH2/LOX"}
      [] sub = "RP-1" -> key \in {"RP-1/LOX"}

----------------------------------------------------------------------------
(* Tabulated fractional powers *)

\* (Pc / 20.0) ** 0.05, scaled by FX (line 645; Pc > 0 there)
PcPow005(Pc) ==
    CASE Pc = 1 -> 8609
      [] Pc = 5 -> 9330
      [] Pc = 10 -> 9659
      [] Pc = 20 -> 10000
      [] Pc = 27 -> 10151
      [] Pc = 28 -> 10170
      [] Pc = 35 -> 10284
      [] Pc = 50 -> 10469
      [] Pc = 70 -> 10646
      [] Pc = 100 -> 10838
      [] Pc = 150 -> 11060
      [] Pc = 200 -> 11220

\* (Pc / 35.0) ** 0.8, scaled by FX (line 1235)
PcPow08(Pc) ==
    CASE Pc = 0 -> 0
      [] Pc = 1 -> 582
      [] Pc = 5 -> 2108
      [] Pc = 10 -> 3671
      [] Pc = 20 -> 6391
      [] Pc = 27 -> 8125
      [] Pc = 28 -> 8365
      [] Pc = 35 -> 10000
      [] Pc = 50 -> 13302
      [] Pc = 70 -> 17411
      [] Pc = 100 -> 23160
      [] Pc = 150 -> 32035
      [] Pc = 200 -> 40325

\* Pc ** n for the catalog's pressure exponents n (1e-2), scaled by FX (lines 1137, 1140)
PcPowN(Pc, n) ==
    CASE Pc = 0 /\ n = 25 -> 0
      [] Pc = 0 /\ n = 30 -> 0
      [] Pc = 0 /\ n = 32 -> 0
      [] Pc = 0 /\ n = 35 -> 0
      [] Pc = 1 /\ n = 25 -> 10000
      [] Pc = 1 /\ n = 30 -> 10000
      [] Pc = 1 /\ n = 32 -> 10000
      [] Pc = 1 /\ n = 35 -> 10000
      [] Pc = 5 /\ n = 25 -> 14953
      [] Pc = 5 /\ n = 30 -> 16207
      [] Pc = 5 /\ n = 32 -> 16737
      [] Pc = 5 /\ n = 35 -> 17565
      [] Pc = 10 /\ n = 25 -> 17783
      [] Pc = 10 /\ n = 30 -> 19953
      [] Pc = 10 /\ n = 32 -> 20893
      [] Pc = 10 /\ n = 35 -> 22387
      [] Pc = 20 /\ n = 25 -> 21147
      [] Pc = 20 /\ n = 30 -> 24565
      [] Pc = 20 /\ n = 32 -> 26081
      [] Pc = 20 /\ n = 35 -> 28534
      [] Pc = 27 /\ n = 25 -> 22795
      [] Pc = 27 /\ n = 30 -> 26879
      [] Pc = 27 /\ n = 32 -> 28710
      [] Pc = 27 /\ n = 35 -> 31694
      [] Pc = 28 /\ n = 25 -> 23003
      [] Pc = 28 /\ n = 30 -> 27174
      [] Pc = 28 /\ n = 32 -> 29046
      [] Pc = 28 /\ n = 35 -> 32100
      [] Pc = 35 /\ n = 25 -> 24323
      [] Pc = 35 /\ n = 30 -> 29055
      [] Pc = 35 /\ n = 32 -> 31196
      [] Pc = 35 /\ n = 35 -> 34708
      [] Pc = 50 /\ n = 25 -> 26591
      [] Pc = 50 /\ n = 30 -> 32336
      [] Pc = 50 /\ n = 32 -> 34968
      [] Pc = 50 /\ n = 35 -> 39322
      [] Pc = 70 /\ n = 25 -> 28925
      [] Pc = 70 /\ n = 30 -> 35771
      [] Pc = 70 /\ n = 32 -> 38943
      [] Pc = 70 /\ n = 35 -> 44237
      [] Pc = 100 /\ n = 25 -> 31623
      [] Pc = 100 /\ n = 30 -> 39811
      [] Pc = 100 /\ n = 32 -> 43652
      [] Pc = 100 /\ n = 35 -> 50119
      [] Pc = 150 /\ n = 25 -> 34996
      [] Pc = 150 /\ n = 30 -> 44960
      [] Pc = 150 /\ n = 32 -> 49699
      [] Pc = 150 /\ n = 35 -> 57761
      [] Pc = 200 /\ n = 25 -> 37606
      [] Pc = 200 /\ n = 30 -> 49013
      [] Pc = 200 /\ n = 32 -> 54492
      [] Pc = 200 /\ n = 35 -> 63879

\* oxidizer_flux ** m for the catalog's flux exponents m (1e-2), scaled by 100 (lines 1155, 1159)
FluxPowM(G, m) ==
    CASE G = 50 /\ m = 65 -> 1272
      [] G = 50 /\ m = 70 -> 1546
      [] G = 50 /\ m = 80 -> 2287
      [] G = 100 /\ m = 65 -> 1995
      [] G = 100 /\ m = 70 -> 2512
      [] G = 100 /\ m = 80 -> 3981
      [] G = 200 /\ m = 65 -> 3131
      [] G = 200 /\ m = 70 -> 4081
      [] G = 200 /\ m = 80 -> 6931
      [] G = 400 /\ m = 65 -> 4913
      [] G = 400 /\ m = 70 -> 6629
      [] G = 400 /\ m = 80 -> 12068

\* (heat_flux / 5e6) ** 0.8 for heat_flux in MW/m^2, scaled by FX (line 737)
HeatFluxPow08(q) ==
    CASE q = 0 -> 0
      [] q = 1 -> 2759
      [] q = 5 -> 10000
      [] q = 10 -> 17411
      [] q = 20 -> 30314

\* (Pc / 35.0) ** 1.5, scaled by FX (line 734)
PcPow15(Pc) ==
    CASE Pc = 0 -> 0
      [] Pc = 1 -> 48
      [] Pc = 5 -> 540
      [] Pc = 10 -> 1527
      [] Pc = 20 -> 4320
      [] Pc = 27 -> 6776
      [] Pc = 28 -> 7155
      [] Pc = 35 -> 10000
      [] Pc = 50 -> 17075
      [] Pc = 70 -> 28284
      [] Pc = 100 -> 48295
      [] Pc = 150 -> 88723
      [] Pc = 200 -> 136598

----------------------------------------------------------------------------
(* PhysicsEngineWithExplanation: the performance formula library *)

\* The (optimal_of, tenths) pairs whose double product optimal_of * 0.8 or
\* optimal_of * 1.2 is above the double nearest to the decimal product:
\* 3.0 * 0.8 is 2.4000000000000004, 3.5 * 0.8 is 2.8000000000000003,
\* 6.0 * 0.8 is 4.800000000000001, 7.0 * 0.8 is 5.6000000000000005
ProductRoundsUp == {<<300, 8>>, <<350, 8>>, <<600, 8>>, <<700, 8>>}

\* of_ratio < optimal_of * 0.8 (tenths = 8) or optimal_of * 1.2 (tenths = 12)
\* as doubles compare, for an of_ratio written to two decimals
LessThanProduct(of_ratio, optimal_of, tenths) ==
    \/ of_ratio * 10 < optimal_of * tenths
    \/ of_ratio * 10 = optimal_of * tenths /\ <<optimal_of, tenths>> \in ProductRoundsUp

\* gamma, 1e-2
calculate_gamma(propellant, of_ratio) ==
    IF propellant \notin PropellantKeys THEN Raise("KeyError")
    ELSE LET props       == PROPELLANTS[propellant]
             gamma_range == props.gamma_range
             optimal_of  == props.optimal_of
         IN  IF optimal_of = 0
             THEN Ok(IF Len(gamma_range) > 1 THEN gamma_range[2] ELSE 120)
             ELSE IF LessThanProduct(of_ratio, optimal_of, 8)  THEN Ok(gamma_range[1])
             ELSE IF LessThanProduct(of_ratio, optimal_of, 12) THEN Ok(gamma_range[2])
             ELSE Ok(gamma_range[3])

\* 1.0 - 0.02 * of_deviation ** 2 with of_deviation = (of_ratio - optimal_of) / optimal_of
CStarOfFactor(of_ratio, optimal_of) ==
    LET dev == (Abs(of_ratio - optimal_of) * 1000) \div optimal_of
    IN  FX - (2 * dev * dev) \div FX

\* A variant whose temperature correction is about 3000 K
calculate_c_star_about_3000(propellant, Pc, of_ratio) ==
    IF propellant \notin PropellantKeys THEN Raise("KeyError")
    ELSE LET props == PROPELLANTS[propellant]
         IN  Ok(MulDiv(MulDiv(MulDiv(props.c_star * 10,
                                     IF Pc > 0 THEN PcPow005(Pc) ELSE FX, FX),
                              IF props.optimal_of > 0
                              THEN CStarOfFactor(of_ratio, props.optimal_of) ELSE FX, FX),
                       FX + (props.combustion_temp - 3000), FX))

\* characteristic velocity, 1e-1 m/s
calculate_c_star(propellant, Pc, of_ratio) ==
    IF propellant \notin PropellantKeys THEN Raise("KeyError")
    ELSE LET props           == PROPELLANTS[propellant]
             base_cstar      == props.c_star * 10
             pressure_factor == IF Pc > 0 THEN PcPow005(Pc) ELSE FX
             optimal_of      == props.optimal_of
             of_factor       == IF optimal_of > 0
                                THEN CStarOfFactor(of_ratio, optimal_of)
                                ELSE FX
             temp_factor     == FX + (props.combustion_temp - 3500)
         IN  Ok(MulDiv(MulDiv(MulDiv(base_cstar, pressure_factor, FX),
                              of_factor, FX), temp_factor, FX))

\* 1.0 - 0.03 * of_deviation ** 1.5 with of_deviation = abs(of_ratio - optimal_of) / optimal_of
EfficiencyOfFactor(of_ratio, optimal_of) ==
    LET dev == (Abs(of_ratio - optimal_of) * FX) \div optimal_of
        p15 == (dev * ISqrt(dev)) \div 100
    IN  FX - (3 * p15) \div 100

\* The division of line 678: Python raises on a zero float denominator
OfDeviationRaises(props) == props.optimal_of = 0

\* A variant that reads the injector table for solids too
calculate_combustion_efficiency_table_for_all(propellant, Pc, of_ratio, injector_type) ==
    IF propellant \notin PropellantKeys THEN Raise("KeyError")
    ELSE LET props    == PROPELLANTS[propellant]
             solid    == TypeHas(props.type, "Solid")
             base_eff == IF solid THEN 9900
                         ELSE IF TypeHas(props.type, "Hybrid") THEN 9600
                         ELSE IF propellant \in {"LH2/LOX", "Slush Hydrogen/LOX"} THEN 9850
                         ELSE IF TypeHas(props.type, "Hypergolic") THEN 9900
                         ELSE 9800
         IN  IF ~solid /\ OfDeviationRaises(props) THEN Raise("ZeroDivisionError")
             ELSE LET of_factor       == IF ~solid
                                         THEN EfficiencyOfFactor(of_ratio, props.optimal_of)
                                         ELSE FX
                      pressure_factor == FX + 10 * (Pc - 20)
                      injector_factor ==
                          CASE injector_type = "coaxial"      -> 10000
                            [] injector_type = "like-on-like" -> 9800
                            [] injector_type = "impinging"    -> 9700
                            [] injector_type = "swirl"        -> 9600
                            [] OTHER                          -> 9700
                  IN  Ok(Min(9950, Max(8500,
                          MulDiv(MulDiv(MulDiv(base_eff, of_factor, FX),
                                        pressure_factor, FX), injector_factor, FX))))

\* combustion efficiency, 1e-4
calculate_combustion_efficiency(propellant, Pc, of_ratio, injector_type) ==
    IF propellant \notin PropellantKeys THEN Raise("KeyError")
    ELSE LET props    == PROPELLANTS[propellant]
             solid    == TypeHas(props.type, "Solid")
             base_eff == IF solid THEN 9900
                         ELSE IF TypeHas(props.type, "Hybrid") THEN 9600
                         ELSE IF propellant \in {"LH2/LOX", "Slush Hydrogen/LOX"} THEN 9850
                         ELSE IF TypeHas(props.type, "Hypergolic") THEN 9900
                         ELSE 9800
         IN  IF ~solid /\ OfDeviationRaises(props) THEN Raise("ZeroDivisionError")
             ELSE LET of_factor       == IF ~solid
                                         THEN EfficiencyOfFactor(of_ratio, props.optimal_of)
                                         ELSE FX
                      pressure_factor == FX + 10 * (Pc - 20)
                      injector_factor ==
                          IF solid THEN FX
                          ELSE CASE injector_type = "coaxial"      -> 10000
                                 [] injector_type = "like-on-like" -> 9800
                                 [] injector_type = "impinging"    -> 9700
                                 [] injector_type = "swirl"        -> 9600
                                 [] OTHER                          -> 9700
                      Lstar_factor    == FX
                      efficiency      ==
                          MulDiv(MulDiv(MulDiv(MulDiv(base_eff, of_factor, FX),
                                               pressure_factor, FX),
                                        injector_factor, FX), Lstar_factor, FX)
                  IN  Ok(Min(9950, Max(8500, efficiency)))

\* A variant that returns the efficiency without the floor
calculate_nozzle_efficiency_unfloored(expansion_ratio, Pc, Pe, gamma) ==
    Ok(9800 - (150 * ISqrt(Pc * 2000000)) \div FX
            - (IF expansion_ratio < 30 THEN 100
               ELSE IF expansion_ratio < 60 THEN 200 ELSE 300))

\* A variant whose brackets include their upper bounds
calculate_nozzle_efficiency_inclusive(expansion_ratio, Pc, Pe, gamma) ==
    Ok(Max(9000, 9800 - (150 * ISqrt(Pc * 2000000)) \div FX
                      - (IF expansion_ratio <= 30 THEN 100
                         ELSE IF expansion_ratio <= 60 THEN 200 ELSE 300)))

\* nozzle efficiency, 1e-4 (Pe and gamma are accepted and not read)
calculate_nozzle_efficiency(expansion_ratio, Pc, Pe, gamma) ==
    LET ideal_eff       == 9800
        boundary_loss   == (150 * ISqrt(Pc * 2000000)) \div FX
        divergence_loss == IF expansion_ratio < 30 THEN 100
                           ELSE IF expansion_ratio < 60 THEN 200
                           ELSE 300
        two_phase_loss  == 0
        total_efficiency == ideal_eff - boundary_loss - divergence_loss - two_phase_loss
    IN  Ok(Max(9000, total_efficiency))

\* erosion rate, 1e-6; heat_flux in MW/m^2
calculate_erosion_rate(Pc, material_name, heat_flux, propellant) ==
    IF material_name \notin MaterialKeys THEN Raise("KeyError")
    ELSE LET material         == MATERIALS[material_name]
             base_rate        == material.erosion_rate * 100
             pressure_factor  == PcPow15(Pc)
             heat_flux_factor == HeatFluxPow08(heat_flux)
             prop_factor      == IF KeyHas(propellant, "LOX") THEN 12000
                                 ELSE IF KeyHas(propellant, "NTO") THEN 13000
                                 ELSE 10000
             temp_factor      == FX + 10 * heat_flux
         IN  Ok(MulDiv(MulDiv(MulDiv(MulDiv(base_rate, pressure_factor, FX),
                                     heat_flux_factor, FX), prop_factor, FX),
                       temp_factor, FX))

\* Whether the double of line 1140 is the double of its value written to
\* three decimals.  burn_rate / 70.0 ** n times 70.0 ** n is burn_rate again
\* for three of the solid records and 9.000000000000002 for APCP (n = 0.35);
\* at other pressures the value is no three-decimal number; 0 ** n is 0.0.
SolidBurnRateIsExact(propellant, Pc) ==
    /\ propellant \in PropellantKeys
    /\ \/ ~TypeHas(PROPELLANTS[propellant].type, "Solid")
       \/ Pc = 0
       \/ Pc = 70 /\ propellant # "APCP (Solid)"

\* solid burn rate (Vieille's law), 1e-3 mm/s; a and a * Pc ** n in 1e-5 mm/s
calculate_solid_burn_rate(propellant, Pc) ==
    IF propellant \notin PropellantKeys THEN Raise("KeyError")
    ELSE LET props == PROPELLANTS[propellant]
         IN  IF ~TypeHas(props.type, "Solid") THEN Ok(0)
             ELSE LET n == props.pressure_exp
                      a == MulDiv(props.burn_rate * 10000, FX, PcPowN(70, n))
                      burn_rate   == MulDiv(a, PcPowN(Pc, n), FX)
                      temp_factor == FX
                  IN  Ok(MulDiv(MulDiv(burn_rate, temp_factor, FX), 1, 100))

\* Whether the double of line 1159 is the double of its value written to
\* three decimals: at flux 200 it is regression_rate again for every hybrid
\* record; at the other fluxes the value is no three-decimal number.
HybridRegressionRateIsExact(propellant, oxidizer_flux) ==
    /\ propellant \in PropellantKeys
    /\ \/ ~TypeHas(PROPELLANTS[propellant].type, "Hybrid")
       \/ oxidizer_flux = 200

\* A variant whose pressure exponent is the record's regression exponent
calculate_hybrid_regression_rate_with_pressure(propellant, oxidizer_flux, Pc) ==
    IF propellant \notin PropellantKeys THEN Raise("KeyError")
    ELSE LET props == PROPELLANTS[propellant]
         IN  IF ~TypeHas(props.type, "Hybrid") THEN Ok(0)
             ELSE Ok(MulDiv(MulDiv(MulDiv(MulDiv(props.regression_rate * 1000000, 100,
                                                 FluxPowM(200, props.regression_exp)),
                                          FluxPowM(oxidizer_flux, props.regression_exp),
                                          100),
                                   PcPow08(Pc), FX), 1, FX))

\* hybrid regression rate (Marxman), 1e-3 mm/s; a and the product in 1e-7
\* mm/s; Pc ** 0.0 is 1.0 for every Pc
calculate_hybrid_regression_rate(propellant, oxidizer_flux, Pc) ==
    IF propellant \notin PropellantKeys THEN Raise("KeyError")
    ELSE LET props == PROPELLANTS[propellant]
         IN  IF ~TypeHas(props.type, "Hybrid") THEN Ok(0)
             ELSE LET m == props.regression_exp
                      a == MulDiv(props.regression_rate * 1000000, 100, FluxPowM(200, m))
                      PcPow0 == FX
                  IN  Ok(MulDiv(MulDiv(MulDiv(a, FluxPowM(oxidizer_flux, m), 100),
                                       PcPow0, FX), 1, FX))

\* (b - a) / a * 100, 1e-2 percent
PercentDeviation(a, b) == MulDiv(b - a, FX, a)

\* f"{deviation:+.1f}%": the sign and the tenths of a percent, rounded
FormatDeviation(deviation) ==
    [sign   |-> IF deviation < 0 THEN "-" ELSE "+",
     tenths |-> (Abs(deviation) + 5) \div 10]

\* One explanation record: the canned reasons, recommendations and physics
\* notes are fixed per (parameter kind, bucket), held here as that pair
Explanation(kind, bucket, severity, deviation) ==
    [severity  |-> severity,
     deviation |-> FormatDeviation(deviation),
     text      |-> <<kind, bucket>>]

explain_thrust_difference(deviation, params) ==
    IF deviation > 500
    THEN Explanation("thrust", "higher", "HIGHER THAN EXPECTED", deviation)
    ELSE IF deviation < -500
    THEN Explanation("thrust", "lower", "LOWER THAN EXPECTED", deviation)
    ELSE Explanation("thrust", "within", "WITHIN EXPECTED RANGE", deviation)

\* A variant with the thresholds of the thrust table
explain_isp_difference_symmetric(deviation, params) ==
    IF deviation > 500
    THEN Explanation("isp", "higher", "EXCELLENT ISP", deviation)
    ELSE IF deviation < -500
    THEN Explanation("isp", "lower", "ISP BELOW EXPECTED", deviation)
    ELSE Explanation("isp", "within", "NOMINAL ISP", deviation)

explain_isp_difference(deviation, params) ==
    IF deviation > 200
    THEN Explanation("isp", "higher", "EXCELLENT ISP", deviation)
    ELSE IF deviation < -300
    THEN Explanation("isp", "lower", "ISP BELOW EXPECTED", deviation)
    ELSE Explanation("isp", "within", "NOMINAL ISP", deviation)

\* A variant that reads the engine parameters: no pressure reading to explain
\* when the chamber pressure is zero
explain_pressure_difference_by_params(deviation, params) ==
    IF params.Pc = 0
    THEN Explanation("generic", "any", "PARAMETER VARIATION", deviation)
    ELSE IF deviation > 500
    THEN Explanation("pressure", "higher", "HIGHER PRESSURE", deviation)
    ELSE IF deviation < -500
    THEN Explanation("pressure", "lower", "LOWER PRESSURE", deviation)
    ELSE Explanation("pressure", "within", "NORMAL PRESSURE", deviation)

explain_pressure_difference(deviation, params) ==
    IF deviation > 500
    THEN Explanation("pressure", "higher", "HIGHER PRESSURE", deviation)
    ELSE IF deviation < -500
    THEN Explanation("pressure", "lower", "LOWER PRESSURE", deviation)
    ELSE Explanation("pressure", "within", "NORMAL PRESSURE", deviation)

explain_temperature_difference(deviation, params) ==
    IF deviation > 1000
    THEN Explanation("temperature", "higher", "HIGHER TEMPERATURE", deviation)
    ELSE IF deviation < -1000
    THEN Explanation("temperature", "lower", "LOWER TEMPERATURE", deviation)
    ELSE Explanation("temperature", "within", "NORMAL TEMPERATURE", deviation)

explain_efficiency_difference(deviation, params) ==
    IF deviation > 500
    THEN Explanation("efficiency", "higher", "HIGHER EFFICIENCY", deviation)
    ELSE IF deviation < -1000
    THEN Explanation("efficiency", "lower", "LOWER EFFICIENCY", deviation)
    ELSE Explanation("efficiency", "within", "EXPECTED EFFICIENCY", deviation)

generic_explanation(deviation) ==
    Explanation("generic", "any", "PARAMETER VARIATION", deviation)

\* theoretical and experimental in one unit; Python raises on a zero float
\* denominator
explain_differences(theoretical, experimental, parameter, engine_params) ==
    IF theoretical = 0 THEN Raise("ZeroDivisionError")
    ELSE LET deviation == PercentDeviation(theoretical, experimental)
         IN  Ok(CASE parameter = "thrust"      -> explain_thrust_difference(deviation, engine_params)
                  [] parameter = "isp"         -> explain_isp_difference(deviation, engine_params)
                  [] parameter = "pressure"    -> explain_pressure_difference(deviation, engine_params)
                  [] parameter = "temperature" -> explain_temperature_difference(deviation, engine_params)
                  [] parameter = "efficiency"  -> explain_efficiency_difference(deviation, engine_params)
                  [] OTHER                     -> generic_explanation(deviation))

\* The four assessment records (lines 1168-1198)
Assessment(grade) ==
    CASE grade = "A+" -> [grade |-> "A+", verdict |-> "EXCELLENT",
                          action |-> "Ready for flight operations"]
      [] grade = "B+" -> [grade |-> "B+", verdict |-> "GOOD",
                          action |-> "Continue with monitoring"]
      [] grade = "C"  -> [grade |-> "C", verdict |-> "REQUIRES ATTENTION",
                          action |-> "Review design and testing parameters"]
      [] grade = "D"  -> [grade |-> "D", verdict |-> "NEEDS IMPROVEMENT",
                          action |-> "Major redesign or parameter adjustment needed"]

\* A variant that averages the deviations as they are
get_overall_assessment_signed(deviations) ==
    IF deviations = <<>> THEN Assessment("D")
    ELSE LET avg_dev == Mean(deviations)
         IN  IF avg_dev < 200 THEN Assessment("A+")
             ELSE IF avg_dev < 500 THEN Assessment("B+")
             ELSE IF avg_dev < 1000 THEN Assessment("C")
             ELSE Assessment("D")

\* deviations: the values of the dict, 1e-2 percent.  np.mean of an empty
\* list is nan, which compares less than nothing.
get_overall_assessment(deviations) ==
    IF deviations = <<>> THEN Assessment("D")
    ELSE LET avg_dev == Mean(Series([i \in 1..Len(deviations) |-> Abs(deviations[i])]))
         IN  IF avg_dev < 200 THEN Assessment("A+")
             ELSE IF avg_dev < 500 THEN Assessment("B+")
             ELSE IF avg_dev < 1000 THEN Assessment("C")
             ELSE Assessment("D")

----------------------------------------------------------------------------
(* AcousticAnalysisEngine *)

ModeNames == <<"1L", "1T", "1R">>

\* A variant without the entry for the all-stable case
get_acoustic_recommendations_without_default(modes) ==
    LET marked == SelectSeq(ModeNames, LAMBDA m : modes[m].growth_rate > 500)
    IN  [i \in 1..Len(marked) |->
            IF modes[marked[i]].growth_rate > 1000
            THEN <<marked[i], "unstable">>
            ELSE <<marked[i], "marginal">>]

get_acoustic_recommendations(modes) ==
    LET marked == SelectSeq(ModeNames, LAMBDA m : modes[m].growth_rate > 500)
        recs   == [i \in 1..Len(marked) |->
                     IF modes[marked[i]].growth_rate > 1000
                     THEN <<marked[i], "unstable">>
                     ELSE <<marked[i], "marginal">>]
    IN  IF recs = <<>> THEN << <<"all", "stable">> >> ELSE recs

\* A variant that looks at the longitudinal mode alone
calculate_stability_margin_of_1L(modes) ==
    LET max_growth == modes["1L"].growth_rate
    IN  IF max_growth < 500 THEN [margin |-> "Excellent", value |-> 95]
        ELSE IF max_growth < 1000 THEN [margin |-> "Good", value |-> 80]
        ELSE [margin |-> "Poor", value |-> 50]

calculate_stability_margin(modes) ==
    LET max_growth == Max(modes["1L"].growth_rate,
                          Max(modes["1T"].growth_rate, modes["1R"].growth_rate))
    IN  IF max_growth < 500 THEN [margin |-> "Excellent", value |-> 95]
        ELSE IF max_growth < 1000 THEN [margin |-> "Good", value |-> 80]
        ELSE [margin |-> "Poor", value |-> 50]

\* chamber_length, chamber_diameter in 1e-6 m (positive); frequencies in Hz,
\* growth rates 1e-4
analyze_acoustic_modes(Pc, chamber_length, chamber_diameter, propellant) ==
    LET sound_speed == IF KeyHas(propellant, "LH2") THEN 1400
                       ELSE IF KeyHas(propellant, "RP-1") THEN 1200
                       ELSE 1300
        f_1L == (sound_speed * 1000000) \div (2 * chamber_length)
        f_1T == MulDiv(sound_speed * 100, 5857, chamber_diameter)
        f_1R == MulDiv(sound_speed * 100, 12191, chamber_diameter)
        pressure_factor == PcPow08(Pc)
        modes ==
            ("1L" :> [frequency   |-> f_1L,
                      growth_rate |-> (500 * pressure_factor) \div FX,
                      risk        |-> IF f_1L < 800 THEN "Medium" ELSE "Low"]) @@
            ("1T" :> [frequency   |-> f_1T,
                      growth_rate |-> (1200 * pressure_factor) \div FX,
                      risk        |-> IF f_1T < 3000 THEN "High" ELSE "Medium"]) @@
            ("1R" :> [frequency   |-> f_1R,
                      growth_rate |-> (300 * pressure_factor) \div FX,
                      risk        |-> "Low"])
    IN  [modes            |-> modes,
         dangerous_modes  |-> SelectSeq(ModeNames, LAMBDA m : modes[m].growth_rate > 1000),
         recommendations  |-> get_acoustic_recommendations(modes),
         stability_margin |-> calculate_stability_margin(modes)]

----------------------------------------------------------------------------
(* numpy's global generator.  Its state is the seed it was last given and   *)
(* the number of variates drawn since; the variates of a seed are a fixed   *)
(* stream (a small congruential generator stands for the Mersenne Twister). *)

\* The length of self.time and of every series (the program uses 1000)
NumSamples == 4

\* The argument of np.random.seed
FixedSeed == 42

RECURSIVE StreamState(_, _)
StreamState(seed, k) ==
    IF k = 0 THEN (seed * 7919 + 13) % 65537
    ELSE (75 * StreamState(seed, k - 1) + 74) % 65537

\* The k-th variate (k = 0, 1, ...) of the stream of `seed`, 1e-3
Variate(seed, k) == (StreamState(seed, k) % 2001) - 1000

\* A constructor that leaves the generator as it finds it
KeepGenerator(g) == g

\* np.random.seed(42)
SeedGenerator(g) == [seed |-> FixedSeed, pos |-> 0]

\* np.random.randn(n) / np.random.normal(...) n times: the variates and the
\* generator afterwards
Randn(g, n) ==
    [values |-> Series([i \in 1..n |-> Variate(g.seed, g.pos + i - 1)]),
     rng    |-> [g EXCEPT !.pos = @ + n]]

----------------------------------------------------------------------------
(* UltimateRocketEngine: the engine session *)

NoEngine == [live |-> FALSE]

\* getattr(self, name, default)
GetAttr(self, name, default) == IF name \in self.attrs THEN self[name] ELSE default

\* Lines 2068-2075: the attributes __init__ sets before it computes anything
InitSelf(params) ==
    [live   |-> TRUE,
     params |-> params,
     attrs  |-> {"params", "physics", "acoustics", "visualization", "cycles",
                 "nozzles", "time"},
     time   |-> Series([i \in 1..NumSamples |->
                    ((i - 1) * params.burn_time * 1000) \div (NumSamples - 1)]),
     gamma |-> 0, c_star |-> 0,
     At |-> 0, Dt |-> 0, Dc |-> 0, Lc |-> 0, Ae |-> 0, De |-> 0, Ln |-> 0,
     mdot_theoretical |-> 0, Cf |-> 0, F_theoretical |-> 0, Isp_theoretical |-> 0,
     combustion_efficiency |-> 0, nozzle_efficiency |-> 0,
     acoustic_results |-> <<>>, burn_rate |-> 0, regression_rate |-> 0,
     F_experimental |-> <<>>, Pc_experimental |-> <<>>, mdot_experimental |-> <<>>,
     Isp_experimental |-> <<>>, Tc_experimental |-> <<>>,
     deviations |-> <<>>, efficiencies |-> <<>>, erosion_rate |-> 0,
     safety_factors |-> <<>>, pressure_stability |-> 0, thrust_stability |-> 0,
     acoustic_stability |-> <<>>, explanations |-> <<>>]

\* A variant that looks up the propellant alone
LookupPropellantOnly(params) ==
    IF params.propellant \notin PropellantKeys THEN "KeyError" ELSE "none"

\* Lines 2087-2088: the two catalog lookups that open the computation
LookupRecords(params) ==
    IF params.propellant \notin PropellantKeys THEN "KeyError"
    ELSE IF params.material \notin MaterialKeys THEN "KeyError"
    ELSE "none"

\* thrust (1e-2 N) / (mass flow (1e-6 kg/s) * 9.80665), 1e-2 s; mass flow > 0
IspOf(F, mdot) == MulDiv(F, FX, MulDiv(mdot, 98067, FX) \div 100)

\* floor(sqrt(x * e)) for a product beyond 2^31: the largest mid in lo..hi
\* with mid <= floor(x * e / mid)
RECURSIVE SqrtOfProduct(_, _, _, _)
SqrtOfProduct(x, e, lo, hi) ==
    IF lo >= hi THEN lo
    ELSE LET mid == (lo + hi + 1) \div 2
         IN  IF mid <= (x \div mid) * e + ((x % mid) * e) \div mid
             THEN SqrtOfProduct(x, e, mid, hi)
             ELSE SqrtOfProduct(x, e, lo, mid - 1)

\* A variant whose chamber is as long as it is wide
GeometrySquareChamber(self, At) ==
    LET Dt == ISqrt(MulDiv(At, 127324, 100))
        Dc == MulDiv(Dt, 25, 10)
        Ae == At * self.params.expansion_ratio
        De == SqrtOfProduct(MulDiv(At, 127324, 100), self.params.expansion_ratio,
                            0, 1000000)
    IN  [self EXCEPT !.At = At, !.Dt = Dt, !.Dc = Dc, !.Lc = Dc, !.Ae = Ae,
                     !.De = De, !.Ln = De * 2,
                     !.attrs = @ \cup {"At", "Dt", "Dc", "Lc", "Ae", "De", "Ln"}]

\* Lines 2099-2111: the geometry from the throat area.  Areas in 1e-9 m^2,
\* lengths in 1e-6 m; De = sqrt(4 * Ae / pi) with Ae = At * expansion_ratio.
Geometry(self, At) ==
    LET Dt == ISqrt(MulDiv(At, 127324, 100))
        Dc == MulDiv(Dt, 25, 10)
        Lc == MulDiv(Dc, 15, 10)
        Ae == At * self.params.expansion_ratio
        De == SqrtOfProduct(MulDiv(At, 127324, 100), self.params.expansion_ratio,
                            0, 1000000)
        Ln == De * 2
    IN  [self EXCEPT !.At = At, !.Dt = Dt, !.Dc = Dc, !.Lc = Lc, !.Ae = Ae,
                     !.De = De, !.Ln = Ln,
                     !.attrs = @ \cup {"At", "Dt", "Dc", "Lc", "Ae", "De", "Ln"}]

\* A variant that lowers the mass flow of hybrids as it does that of solids
AdjustForFamilyAlike(self) ==
    LET params == self.params
        prop   == PROPELLANTS[params.propellant]
    IN  IF TypeHas(prop.type, "Solid")
        THEN [self EXCEPT !.mdot_theoretical = MulDiv(@, 9500, FX),
                          !.Isp_theoretical = MulDiv(@, 9200, FX),
                          !.burn_rate = calculate_solid_burn_rate(
                                            params.propellant, params.Pc).value,
                          !.attrs = @ \cup {"burn_rate"}]
        ELSE IF TypeHas(prop.type, "Hybrid")
        THEN [self EXCEPT !.mdot_theoretical = MulDiv(@, 9500, FX),
                          !.Isp_theoretical = MulDiv(@, 9400, FX),
                          !.regression_rate = calculate_hybrid_regression_rate(
                                            params.propellant, 200, params.Pc).value,
                          !.attrs = @ \cup {"regression_rate"}]
        ELSE self

\* Lines 2135-2158: the adjustment for solid and hybrid propellants
AdjustForFamily(self) ==
    LET params == self.params
        prop   == PROPELLANTS[params.propellant]
    IN  IF TypeHas(prop.type, "Solid")
        THEN [self EXCEPT !.mdot_theoretical = MulDiv(@, 9500, FX),
                          !.Isp_theoretical = MulDiv(@, 9200, FX),
                          !.burn_rate = calculate_solid_burn_rate(
                                            params.propellant, params.Pc).value,
                          !.attrs = @ \cup {"burn_rate"}]
        ELSE IF TypeHas(prop.type, "Hybrid")
        THEN [self EXCEPT !.Isp_theoretical = MulDiv(@, 9400, FX),
                          !.regression_rate = calculate_hybrid_regression_rate(
                                            params.propellant, 200, params.Pc).value,
                          !.attrs = @ \cup {"regression_rate"}]
        ELSE self

\* A variant that passes the session's injector type on
EfficienciesOfInjector(self) ==
    LET params == self.params
    IN  With(calculate_combustion_efficiency(params.propellant, params.Pc,
                                             params.of_ratio, params.injector_type),
             LAMBDA ce :
        IF ce.raised # "none" THEN [raised |-> ce.raised, self |-> self]
        ELSE
        With([self EXCEPT
                !.combustion_efficiency = ce.value,
                !.nozzle_efficiency =
                    calculate_nozzle_efficiency(params.expansion_ratio, params.Pc,
                                                1, self.gamma).value,
                !.acoustic_results =
                    analyze_acoustic_modes(params.Pc, self.Lc, self.Dc, params.propellant),
                !.attrs = @ \cup {"combustion_efficiency", "nozzle_efficiency",
                                  "acoustic_results"}],
             LAMBDA s1 : [raised |-> "none", self |-> AdjustForFamily(s1)]))

\* Lines 2123-2134: efficiencies and acoustic analysis, then the adjustment
Efficiencies(self) ==
    LET params == self.params
    IN  With(calculate_combustion_efficiency(params.propellant, params.Pc,
                                             params.of_ratio, "coaxial"),
             LAMBDA ce :
        IF ce.raised # "none" THEN [raised |-> ce.raised, self |-> self]
        ELSE
        With([self EXCEPT
                !.combustion_efficiency = ce.value,
                !.nozzle_efficiency =
                    calculate_nozzle_efficiency(params.expansion_ratio, params.Pc,
                                                1, self.gamma).value,
                !.acoustic_results =
                    analyze_acoustic_modes(params.Pc, self.Lc, self.Dc, params.propellant),
                !.attrs = @ \cup {"combustion_efficiency", "nozzle_efficiency",
                                  "acoustic_results"}],
             LAMBDA s1 : [raised |-> "none", self |-> AdjustForFamily(s1)]))

\* Lines 2113-2121: mass flow, thrust and specific impulse
FlowAndThrust(self) ==
    LET params == self.params
        mdot   == MulDiv(params.Pc * self.At, 1000, self.c_star)
        Cf     == 15
        F      == MulDiv(params.Pc * self.At, Cf, 1000)
        s3     == [self EXCEPT !.mdot_theoretical = mdot, !.Cf = Cf,
                               !.F_theoretical = F,
                               !.attrs = @ \cup {"mdot_theoretical", "Cf",
                                                 "F_theoretical"}]
    IN  IF mdot = 0 THEN [raised |-> "ZeroDivisionError", self |-> s3]
        ELSE [raised |-> "none",
              self   |-> [s3 EXCEPT !.Isp_theoretical = IspOf(F, mdot),
                                    !.attrs = @ \cup {"Isp_theoretical"}]]

\* Lines 2084-2158.  A Python float division by zero raises: Pc_Pa * 1.5 at
\* line 2101, c_star at line 2114, mdot_theoretical * 9.80665 at line 2121.
calculate_theoretical_performance(self) ==
    LET params == self.params
    IN  IF LookupRecords(params) # "none"
        THEN [raised |-> LookupRecords(params), self |-> self]
        ELSE
        With([self EXCEPT
                !.gamma = calculate_gamma(params.propellant, params.of_ratio).value,
                !.c_star = calculate_c_star(params.propellant, params.Pc,
                                            params.of_ratio).value,
                !.attrs = @ \cup {"gamma", "c_star"}],
             LAMBDA s1 :
        IF params.Pc = 0 THEN [raised |-> "ZeroDivisionError", self |-> s1]
        ELSE
        With(Geometry(s1, MulDiv(params.thrust, 20000, 3 * params.Pc)),
             LAMBDA s2 :
        IF s2.c_star = 0 THEN [raised |-> "ZeroDivisionError", self |-> s2]
        ELSE
        With(FlowAndThrust(s2),
             LAMBDA r3 :
        IF r3.raised # "none" THEN r3 ELSE Efficiencies(r3.self))))

\* sin(2 * pi * freq * self.time[i]), scaled by FX
Wave(self, freq, i) ==
    SinTurn(freq * self.params.burn_time * (i - 1), NumSamples - 1)

\* Lines 2160-2197.  noise holds the three randn(len(self.time)) arrays in the
\* order they are drawn: thrust, pressure, mass flow.
generate_experimental_data(self, noise) ==
    LET params == self.params
        N      == Len(self.time)
        total_efficiency ==
            MulDiv(MulDiv(self.combustion_efficiency, self.nozzle_efficiency, FX), 9800, FX)
        base_F == MulDiv(self.F_theoretical, total_efficiency, FX)
        f_1L   == self.acoustic_results.modes["1L"].frequency
        total_variation(i) ==
              (200 * Wave(self, 100, i)) \div FX
            + (100 * Wave(self, 500, i)) \div FX
            + (10 * (i - 1)) \div (N - 1)
            + (50 * noise[1][i]) \div 1000
            + (30 * Wave(self, f_1L, i)) \div FX
        F_exp == Series([i \in 1..N |-> MulDiv(base_F, FX + total_variation(i), FX)])
        Pc_exp == Series([i \in 1..N |->
                     MulDiv(params.Pc * 1000,
                            FX + (300 * Wave(self, 50, i)) \div FX
                               + (100 * noise[2][i]) \div 1000, FX)])
        mdot_exp == Series([i \in 1..N |->
                     MulDiv(MulDiv(self.mdot_theoretical, 10200, FX),
                            FX + (50 * Wave(self, 200, i)) \div FX
                               + (20 * noise[3][i]) \div 1000, FX)])
        prop_temp == PROPELLANTS[params.propellant].combustion_temp
        Tc_exp == Series([i \in 1..N |->
                     MulDiv(MulDiv(prop_temp * 10, total_efficiency, FX),
                            FX + (100 * Wave(self, 80, i)) \div FX, FX)])
    IN  [self EXCEPT !.F_experimental = F_exp,
                     !.Pc_experimental = Pc_exp,
                     !.mdot_experimental = mdot_exp,
                     !.Isp_experimental =
                         Series([i \in 1..N |-> IspOf(F_exp[i], mdot_exp[i])]),
                     !.Tc_experimental = Tc_exp,
                     !.attrs = @ \cup {"F_experimental", "Pc_experimental",
                                       "mdot_experimental", "Isp_experimental",
                                       "Tc_experimental"}]

\* Lines 2199-2237.  calculate_erosion_rate looks the material up (line 2219).
analyze_all_aspects(self) ==
    LET params  == self.params
        erosion == calculate_erosion_rate(params.Pc, params.material, 5, params.propellant)
        s1 == [self EXCEPT
                !.deviations =
                    [thrust   |-> PercentDeviation(self.F_theoretical,
                                                   Mean(self.F_experimental)),
                     isp      |-> PercentDeviation(self.Isp_theoretical,
                                                   Mean(self.Isp_experimental)),
                     mdot     |-> PercentDeviation(self.mdot_theoretical,
                                                   Mean(self.mdot_experimental)),
                     pressure |-> PercentDeviation(params.Pc * 1000,
                                                   Mean(self.Pc_experimental))],
                !.efficiencies =
                    [combustion |-> self.combustion_efficiency,
                     nozzle     |-> self.nozzle_efficiency,
                     overall    |-> MulDiv(Mean(self.F_experimental), FX, self.F_theoretical),
                     total      |-> MulDiv(self.combustion_efficiency,
                                           self.nozzle_efficiency, FX)],
                !.attrs = @ \cup {"deviations", "efficiencies"}]
    IN  IF erosion.raised # "none" THEN [raised |-> erosion.raised, self |-> s1]
        ELSE
        LET mat       == MATERIALS[params.material]
            stability == self.acoustic_results.stability_margin
        IN  [raised |-> "none",
             self   |->
                [s1 EXCEPT
                    !.erosion_rate = erosion.value,
                    !.safety_factors =
                        [throat  |-> mat.yield_strength,
                         chamber |-> MulDiv(mat.yield_strength, 100, 70)],
                    !.pressure_stability =
                        MulDiv(Std(self.Pc_experimental), FX, Mean(self.Pc_experimental)),
                    !.thrust_stability =
                        MulDiv(Std(self.F_experimental), FX, Mean(self.F_experimental)),
                    !.acoustic_stability = <<stability.margin, stability.value>>,
                    !.attrs = @ \cup {"erosion_rate", "safety_factors",
                                      "pressure_stability", "thrust_stability",
                                      "acoustic_stability"}]]

\* Lines 2243-2245: the (theoretical, experimental) pair of one parameter.  The
\* session has no attribute named <param>_theoretical or <param>_experimental,
\* so both getattr calls fall back to their defaults.
ExplanationPair(self, param) ==
    [theoretical  |-> GetAttr(self, param \o "_theoretical", self.params.Pc * 1000),
     experimental |-> Mean(GetAttr(self, param \o "_experimental", self.Pc_experimental))]

\* Lines 2239-2249
generate_explanations(self) ==
    LET one(param) ==
            explain_differences(ExplanationPair(self, param).theoretical,
                                ExplanationPair(self, param).experimental,
                                param, self.params)
        raising == SelectSeq(<<"thrust", "isp", "pressure">>,
                             LAMBDA p : one(p).raised # "none")
    IN  IF raising # <<>>
        THEN [raised |-> one(raising[1]).raised,
              self   |-> [self EXCEPT !.attrs = @ \cup {"explanations"}]]
        ELSE [raised |-> "none",
              self   |-> [self EXCEPT
                            !.explanations = [thrust   |-> one("thrust").value,
                                              isp      |-> one("isp").value,
                                              pressure |-> one("pressure").value],
                            !.attrs = @ \cup {"explanations"}]]

\* The three randn(len(self.time)) calls of lines 2174, 2184, 2188 in a row
DrawNoise(g) ==
    With(Randn(g, NumSamples), LAMBDA d1 :
    With(Randn(d1.rng, NumSamples), LAMBDA d2 :
    With(Randn(d2.rng, NumSamples), LAMBDA d3 :
        [noise |-> <<d1.values, d2.values, d3.values>>, rng |-> d3.rng])))

\* The attributes the four steps of lines 2079-2082 assign for every
\* propellant: geometry, theoretical scalars, efficiencies, acoustic results,
\* experimental series, deviations, safety factors, explanations
DerivedFields ==
    {"gamma", "c_star", "At", "Dt", "Dc", "Lc", "Ae", "De", "Ln",
     "mdot_theoretical", "Cf", "F_theoretical", "Isp_theoretical",
     "combustion_efficiency", "nozzle_efficiency", "acoustic_results",
     "F_experimental", "Pc_experimental", "mdot_experimental",
     "Isp_experimental", "Tc_experimental", "deviations", "efficiencies",
     "erosion_rate", "safety_factors", "pressure_stability", "thrust_stability",
     "acoustic_stability", "explanations"}

\* A variant that returns after line 2081
FinishInitWithoutExplanations(self, noise) ==
    With(generate_experimental_data(self, noise), LAMBDA s2 : analyze_all_aspects(s2))

\* Lines 2080-2082 for the noise drawn
FinishInit(self, noise) ==
    With(generate_experimental_data(self, noise), LAMBDA s2 :
    With(analyze_all_aspects(s2), LAMBDA r3 :
        IF r3.raised # "none" THEN r3 ELSE generate_explanations(r3.self)))

\* __init__ (lines 2067-2082) run to its end or to its first exception, with
\* the generator it found: the exception if any, the object as far as it was
\* built, and the generator it leaves behind
UltimateRocketEngine(params, g) ==
    With(calculate_theoretical_performance(InitSelf(params)), LAMBDA r1 :
        IF r1.raised # "none"
        THEN [raised |-> r1.raised, self |-> r1.self, rng |-> SeedGenerator(g)]
        ELSE
        With(DrawNoise(SeedGenerator(g)), LAMBDA d :
        With(FinishInit(r1.self, d.noise), LAMBDA r4 :
            [raised |-> r4.raised, self |-> r4.self, rng |-> d.rng])))

----------------------------------------------------------------------------
(* The session's query methods.  Each returns the exception it raised if   *)
(* any, the value it returned, and the object as the call left it.         *)

\* dict.get(key, default)
DictGet(d, key, default) == IF key \in DOMAIN d THEN d[key] ELSE default

\* Lines 2251-2263
analyze_engine_cycle(self) ==
    LET cycle_name == DictGet(self.params, "cycle", "Gas Generator")
    IN  IF cycle_name \notin CycleKeys
        THEN [raised |-> "KeyError", value |-> <<>>, self |-> self]
        ELSE [raised |-> "none",
              value  |-> [cycle_name     |-> cycle_name,
                          efficiency     |-> CYCLES[cycle_name].efficiency,
                          complexity     |-> CYCLES[cycle_name].complexity,
                          throttle_range |-> CYCLES[cycle_name].throttle_range,
                          examples       |-> CYCLES[cycle_name].examples],
              self   |-> self]

\* Lines 2265-2284
analyze_nozzle_performance(self) ==
    LET nozzle_type == DictGet(self.params, "nozzle_type", "C-D (Converging-Diverging)")
    IN  IF nozzle_type \notin NozzleKeys
        THEN [raised |-> "KeyError", value |-> <<>>, self |-> self]
        ELSE
        LET nozzle == NOZZLE_TYPES[nozzle_type]
        IN  [raised |-> "none",
             value  |-> [nozzle_type           |-> nozzle_type,
                         nozzle_category       |-> DictGet(nozzle, "type", "Standard"),
                         is_cd_nozzle          |-> DictGet(nozzle, "type", "") = "C-D",
                         divergence_efficiency |-> nozzle.divergence_efficiency,
                         length_factor         |-> nozzle.length_factor,
                         manufacturing_cost    |-> nozzle.manufacturing_cost,
                         cooling_complexity    |-> nozzle.cooling_complexity],
             self   |-> self]

\* Lines 2287-2314: the analysis dict
PropellantAnalysis(self) ==
    LET propellant == self.params.propellant
        props == PROPELLANTS[propellant]
        analysis == [propellant_name         |-> propellant,
                     type                    |-> props.type,
                     optimal_of_ratio        |-> DictGet(props, "optimal_of", 0),
                     characteristic_velocity |-> DictGet(props, "c_star", 1600),
                     toxicity                |-> DictGet(props, "toxicity", "Medium"),
                     handling                |-> DictGet(props, "handling", "Medium"),
                     flight_heritage         |-> DictGet(props, "flight_heritage", "Moderate")]
    IN  IF TypeHas(props.type, "Solid")
        THEN [family |-> "Solid", analysis |-> analysis,
              rate |-> calculate_solid_burn_rate(propellant, self.params.Pc).value,
              density |-> DictGet(props, "density", 1800)]
        ELSE IF TypeHas(props.type, "Hybrid")
        THEN [family |-> "Hybrid", analysis |-> analysis,
              rate |-> calculate_hybrid_regression_rate(propellant, 200,
                                                        self.params.Pc).value,
              density |-> DictGet(props, "fuel_density", 900)]
        ELSE [family |-> "Liquid", analysis |-> analysis, rate |-> 0, density |-> 0]

\* A variant that keeps the rate it computed on the object
analyze_propellant_type_storing(self) ==
    IF self.params.propellant \notin PropellantKeys
    THEN [raised |-> "KeyError", value |-> <<>>, self |-> self]
    ELSE [raised |-> "none", value |-> PropellantAnalysis(self),
          self |-> [self EXCEPT !.burn_rate = PropellantAnalysis(self).rate,
                                !.attrs = @ \cup {"burn_rate"}]]

\* Lines 2285-2316.  burn_rate and regression_rate are locals of the method.
analyze_propellant_type(self) ==
    IF self.params.propellant \notin PropellantKeys
    THEN [raised |-> "KeyError", value |-> <<>>, self |-> self]
    ELSE [raised |-> "none", value |-> PropellantAnalysis(self), self |-> self]

\* Lines 2318-2362.  A formatted number f'{x:.nf}' is x rounded to n decimals.
get_comprehensive_results(self) ==
    LET type == PROPELLANTS[self.params.propellant].type
    IN  [raised |-> "none",
         value  |->
            [performance |->
                [theoretical_thrust  |-> MulDiv(self.F_theoretical, 1, 1000),
                 experimental_thrust |-> MulDiv(Mean(self.F_experimental), 1, 1000),
                 theoretical_isp     |-> MulDiv(self.Isp_theoretical, 1, 10),
                 experimental_isp    |-> MulDiv(Mean(self.Isp_experimental), 1, 10),
                 mass_flow           |-> MulDiv(self.mdot_theoretical, 1, 1000),
                 characteristic_velocity |-> MulDiv(self.c_star, 1, 10),
                 thrust_coefficient  |-> self.Cf * 100,
                 specific_heat_ratio |-> self.gamma * 10],
             thermal |->
                [combustion_temperature |-> MulDiv(self.Tc_experimental[1], 1, 10),
                 erosion_rate           |-> self.erosion_rate],
             solid_hybrid_info |->
                [rate  |-> MulDiv(GetAttr(self, "burn_rate",
                                          GetAttr(self, "regression_rate", 0)), 1, 10),
                 type  |-> type,
                 notes |-> IF TypeHas(type, "Solid") THEN "Solid motor"
                           ELSE IF TypeHas(type, "Hybrid") THEN "Hybrid engine"
                           ELSE "Liquid engine"],
             structural |->
                [throat_diameter  |-> MulDiv(self.Dt, 1, 100),
                 chamber_diameter |-> MulDiv(self.Dc, 1, 100),
                 exit_diameter    |-> MulDiv(self.De, 1, 100),
                 safety_throat    |-> self.safety_factors.throat,
                 safety_chamber   |-> self.safety_factors.chamber,
                 material         |-> self.params.material],
             stability |->
                [pressure_stability |-> MulDiv(self.pressure_stability, 1, 10),
                 thrust_stability   |-> MulDiv(self.thrust_stability, 1, 10),
                 acoustic_stability |-> self.acoustic_stability,
                 dangerous_modes    |-> self.acoustic_results.dangerous_modes],
             efficiencies |-> self.efficiencies,
             deviations   |-> self.deviations,
             explanations |-> self.explanations,
             acoustic     |-> self.acoustic_results],
         self   |-> self]

----------------------------------------------------------------------------
(* The dashboard: Streamlit script runs of browser sessions that share one *)
(* server process, hence one numpy generator.                              *)

Users == {1, 2}

\* Start states of the process-global generator (numpy seeds it from the OS)
InitialSeeds == {1}

\* A cap on the variates drawn since the generator was last seeded
MaxPos == 50

\* The values the sidebar widgets are set to (lines 2383-2429): every name
\* comes from a catalog; line 2440 fixes injector_type.
SidebarPropellants == {"RP-1/LOX", "Hydrazine (N2H4)"}

SidebarParams ==
    [thrust : {1550}, Pc : {35}, of_ratio : {250}, burn_time : {180},
     propellant : SidebarPropellants, expansion_ratio : {40},
     material : {"Copper (OFHC)"}, injector_type : {"coaxial"},
     cycle : {"Gas Generator"}, nozzle_type : {"Conical (15 deg)"}]

\* The Quick Nozzle Selector buttons (lines 2740-2753)
QuickNozzles == {"C-D (Converging-Diverging)", "Bell (NASA-SP)", "Aerospike (Linear)"}

NoPdf == [made |-> FALSE]

NoCtor == [live |-> FALSE]

NoRet == [raised |-> "none", shown |-> <<>>]

\* The values a direct caller of the library passes
ApiPropellants ==
    {"RP-1/LOX", "LH2/LOX", "MMH/NTO", "Hydrazine (N2H4)", "HTPB/AP (Solid)",
     "HTPB/LOX (Hybrid)", UnknownPropellant, UnknownPropellantLOX}

ApiMaterials == {"Copper (OFHC)", "Inconel 718", UnknownMaterial}

ApiPc == {35, 100}

ApiOf == {0, 250}

ApiInjectors == {"coaxial", "swirl", "pintle"}

\* The parameters of a well-formed session, and the same with one entry changed
ApiBase ==
    [thrust |-> 1550, Pc |-> 35, of_ratio |-> 250, burn_time |-> 180,
     propellant |-> "RP-1/LOX", expansion_ratio |-> 40,
     material |-> "Copper (OFHC)", injector_type |-> "coaxial",
     cycle |-> "Gas Generator", nozzle_type |-> "Conical (15 deg)"]

\* The parameter dicts sessions are constructed from: the sidebar's, and a
\* direct caller's with one or two entries that no widget would give
SessionParams ==
    <<ApiBase,
      [ApiBase EXCEPT !.propellant = "Hydrazine (N2H4)"],
      [ApiBase EXCEPT !.propellant = "LH2/LOX"],
      [ApiBase EXCEPT !.propellant = "HTPB/AP (Solid)"],
      [ApiBase EXCEPT !.propellant = "HTPB/LOX (Hybrid)"],
      [ApiBase EXCEPT !.propellant = UnknownPropellant],
      [ApiBase EXCEPT !.propellant = UnknownPropellantLOX],
      [ApiBase EXCEPT !.material = "Inconel 718"],
      [ApiBase EXCEPT !.material = UnknownMaterial],
      [ApiBase EXCEPT !.propellant = UnknownPropellant, !.material = UnknownMaterial],
      [ApiBase EXCEPT !.cycle = "Expander"],
      [ApiBase EXCEPT !.cycle = UnknownCycle],
      [ApiBase EXCEPT !.nozzle_type = "Bell (Rao)"],
      [ApiBase EXCEPT !.nozzle_type = UnknownNozzle],
      [ApiBase EXCEPT !.thrust = 0],
      [ApiBase EXCEPT !.Pc = 0],
      [ApiBase EXCEPT !.injector_type = "swirl", !.cycle = "Expander",
                      !.nozzle_type = "Bell (Rao)"],
      [ApiBase EXCEPT !.expansion_ratio = 1],
      [ApiBase EXCEPT !.thrust = 1000, !.Pc = 100, !.expansion_ratio = 100]>>

ApiParams == {SessionParams[i] : i \in DOMAIN SessionParams}

\* UltimateRocketEngine(params) tabulated over those parameters and the
\* generator states within the cap: what a construction gives depends on its
\* parameters and on the generator it finds
ConstructorTable ==
    [i \in DOMAIN SessionParams, seed \in InitialSeeds \cup {FixedSeed}, pos \in 0..MaxPos |->
        UltimateRocketEngine(SessionParams[i], [seed |-> seed, pos |-> pos])]

NewEngine(params, g) ==
    ConstructorTable[CHOOSE i \in DOMAIN SessionParams : SessionParams[i] = params,
                     g.seed, g.pos]

\* Variates one pass over the AI/ML tab draws (lines 2942-2979): one for the
\* deviation, one for the safety factor, one per material for the
\* recommendation, one for the instability risk
MLDraws == 3 + Cardinality(MaterialKeys)

\* The main dashboard from line 2483 on, for a stored engine: the overview
\* query, the three tab queries (lines 2628, 2668, 2760), the AI/ML tab.  An
\* exception ends the script run where it is raised.
RunScript(self, g) ==
    With(get_comprehensive_results(self), LAMBDA results :
    With(analyze_engine_cycle(results.self), LAMBDA cycle_info :
        IF cycle_info.raised # "none"
        THEN [self |-> cycle_info.self, rng |-> g,
              ret |-> [raised |-> cycle_info.raised, shown |-> <<results.value>>]]
        ELSE
    With(analyze_nozzle_performance(cycle_info.self), LAMBDA nozzle_info :
        IF nozzle_info.raised # "none"
        THEN [self |-> nozzle_info.self, rng |-> g,
              ret |-> [raised |-> nozzle_info.raised,
                       shown |-> <<results.value, cycle_info.value>>]]
        ELSE
    With(analyze_propellant_type(nozzle_info.self), LAMBDA prop_analysis :
        [self |-> prop_analysis.self, rng |-> Randn(g, MLDraws).rng,
         ret |-> [raised |-> prop_analysis.raised,
                  shown |-> <<results.value, cycle_info.value,
                              nozzle_info.value, prop_analysis.value>>]]))))

\* ComprehensivePDFReport.create_report(engine.params, results, explanations)
create_report(params, results, explanations) ==
    [made |-> TRUE, nozzle_type |-> params.nozzle_type,
     thrust_deviation |-> explanations.thrust.deviation]

Init ==
    /\ engine = [u \in Users |-> NoEngine]
    /\ pdf_data = [u \in Users |-> NoPdf]
    /\ ctor = [u \in Users |-> NoCtor]
    /\ rng \in {[seed |-> s, pos |-> 0] : s \in InitialSeeds}
    /\ thread = [u \in Users |-> [pc |-> "idle", self |-> NoEngine, noise |-> <<>>,
                                   builds |-> 0]]
    /\ ret = NoRet
    /\ call = [op |-> "none", propellant |-> "", args |-> <<>>, raised |-> "none",
               value |-> <<>>, obj |-> NoEngine]

\* A variant of the UPDATE SIMULATION button that leaves pdf_data as it is
UpdateSimulationKeepingPdf(u, sidebar) ==
    \E params \in sidebar :
        \E c \in {NewEngine(params, rng)} :
            IF c.raised # "none"
            THEN /\ rng' = c.rng
                 /\ UNCHANGED <<engine, pdf_data, ctor, thread, ret, call>>
            ELSE \E r \in {RunScript(c.self, c.rng)} :
                 /\ r.rng.pos <= MaxPos
                 /\ engine' = [engine EXCEPT ![u] = r.self]
                 /\ ctor' = [ctor EXCEPT ![u] = [live |-> TRUE, params |-> params,
                                                 advanced |-> rng.pos > 0]]
                 /\ rng' = r.rng
                 /\ ret' = r.ret
                 /\ UNCHANGED <<pdf_data, thread, call>>

\* Lines 2431-2446: the UPDATE SIMULATION button, then the rerun it asks for,
\* with the sidebar set to one of `sidebar`.  When the constructor raises the
\* script run ends there and nothing is stored.
UpdateSimulationOf(u, sidebar) ==
    \E params \in sidebar :
        \E c \in {NewEngine(params, rng)} :
            IF c.raised # "none"
            THEN /\ rng' = c.rng
                 /\ UNCHANGED <<engine, pdf_data, ctor, thread, ret, call>>
            ELSE \E r \in {RunScript(c.self, c.rng)} :
                 /\ r.rng.pos <= MaxPos
                 /\ engine' = [engine EXCEPT ![u] = r.self]
                 /\ pdf_data' = [pdf_data EXCEPT ![u] = NoPdf]
                 /\ ctor' = [ctor EXCEPT ![u] = [live |-> TRUE, params |-> params,
                                                 advanced |-> rng.pos > 0]]
                 /\ rng' = r.rng
                 /\ ret' = r.ret
                 /\ UNCHANGED <<thread, call>>

UpdateSimulation(u) == UpdateSimulationOf(u, SidebarParams)

\* Lines 2451-2466: the GENERATE PDF button, then the rest of the script run.
\* With no engine stored the button does nothing and the script stops at
\* line 2480.
GeneratePdf(u) ==
    IF ~engine[u].live
    THEN /\ ret' = NoRet
         /\ UNCHANGED <<engine, pdf_data, ctor, rng, thread, call>>
    ELSE
    /\ rng.pos + MLDraws <= MaxPos
    /\ \E results \in {get_comprehensive_results(engine[u])} :
       \E r \in {RunScript(results.self, rng)} :
           /\ pdf_data' = [pdf_data EXCEPT ![u] =
                               create_report(results.self.params, results.value,
                                             results.self.explanations)]
           /\ engine' = [engine EXCEPT ![u] = r.self]
           /\ rng' = r.rng
           /\ ret' = r.ret
    /\ UNCHANGED <<ctor, thread, call>>

\* Lines 2737-2753: a Quick Nozzle Selector button.  The assignment is to the
\* params dict of the stored engine; st.rerun() then runs the script again.
QuickNozzle(u) ==
    \E nozzle \in QuickNozzles :
        /\ engine[u].live
        /\ rng.pos + MLDraws <= MaxPos
        /\ \E r \in {RunScript([engine[u] EXCEPT !.params.nozzle_type = nozzle], rng)} :
               /\ engine' = [engine EXCEPT ![u] = r.self]
               /\ rng' = r.rng
               /\ ret' = r.ret
        /\ UNCHANGED <<pdf_data, ctor, thread, call>>

\* Any other interaction (for one, Reset View at line 2860): a script run
Rerun(u) ==
    /\ engine[u].live
    /\ rng.pos + MLDraws <= MaxPos
    /\ \E r \in {RunScript(engine[u], rng)} :
           /\ engine' = [engine EXCEPT ![u] = r.self]
           /\ rng' = r.rng
           /\ ret' = r.ret
    /\ UNCHANGED <<pdf_data, ctor, thread, call>>

Next ==
    \E u \in Users :
        \/ UpdateSimulation(u)
        \/ GeneratePdf(u)
        \/ QuickNozzle(u)
        \/ Rerun(u)

Spec == Init /\ [][Next]_vars

\* The dashboard with the two sidebar buttons alone, the nozzle selectbox
\* being set to one of two designs
ButtonsSidebar ==
    {ApiBase, [ApiBase EXCEPT !.propellant = "Hydrazine (N2H4)"],
     [ApiBase EXCEPT !.nozzle_type = "Bell (Rao)"]}

NextButtons ==
    \E u \in Users :
        \/ UpdateSimulationOf(u, ButtonsSidebar)
        \/ GeneratePdf(u)

SpecButtons == Init /\ [][NextButtons]_vars

----------------------------------------------------------------------------
(* The library called directly: a caller that passes what it likes to the  *)
(* formula functions, the explainer and the session constructor, and calls *)
(* the methods of the session it has just constructed.  `call` is the last *)
(* call: its arguments, the exception or value that came of it, and the    *)
(* session the caller holds afterwards.                                    *)

\* What a call of a function leaves: r is the function's result
Called(op, propellant, args, r) ==
    [op |-> op, propellant |-> propellant, args |-> args,
     raised |-> r.raised, value |-> r.value, obj |-> NoEngine]

CallGamma ==
    \E p \in ApiPropellants, of \in ApiOf :
        call' = Called("calculate_gamma", p, <<p, of>>, calculate_gamma(p, of))

CallCStar ==
    \E p \in ApiPropellants, Pc \in ApiPc, of \in ApiOf :
        call' = Called("calculate_c_star", p, <<p, Pc, of>>, calculate_c_star(p, Pc, of))

CallCombustionEfficiency ==
    \E p \in ApiPropellants, Pc \in ApiPc, of \in ApiOf, inj \in ApiInjectors :
        call' = Called("calculate_combustion_efficiency", p, <<p, Pc, of, inj>>,
                       calculate_combustion_efficiency(p, Pc, of, inj))

CallNozzleEfficiency ==
    \E eps \in {10, 40, 100}, Pc \in ApiPc :
        call' = Called("calculate_nozzle_efficiency", "", <<eps, Pc, 1, 122>>,
                       calculate_nozzle_efficiency(eps, Pc, 1, 122))

CallErosionRate ==
    \E p \in ApiPropellants, m \in ApiMaterials :
        call' = Called("calculate_erosion_rate", p, <<35, m, 5, p>>,
                       calculate_erosion_rate(35, m, 5, p))

CallSolidBurnRate ==
    \E p \in ApiPropellants, Pc \in ApiPc :
        call' = Called("calculate_solid_burn_rate", p, <<p, Pc>>,
                       calculate_solid_burn_rate(p, Pc))

CallHybridRegressionRate ==
    \E p \in ApiPropellants, Pc \in ApiPc :
        call' = Called("calculate_hybrid_regression_rate", p, <<p, 200, Pc>>,
                       calculate_hybrid_regression_rate(p, 200, Pc))

CallExplainDifferences ==
    \E theoretical \in {0, 1550}, experimental \in {1400, 1550, 1700},
       parameter \in {"thrust", "isp", "pressure", "temperature", "efficiency", "mdot"},
       engine_params \in ApiParams :
        call' = Called("explain_differences", "",
                       <<theoretical, experimental, parameter>>,
                       explain_differences(theoretical, experimental, parameter,
                                           engine_params))
                @@ [engine_params |-> engine_params]

\* UltimateRocketEngine(params): the caller holds the new session when the
\* constructor returns and nothing when it raises; `value` is the object as
\* far as the constructor built it
NewSession ==
    \E params \in ApiParams :
        \E c \in {NewEngine(params, rng)} :
            /\ call' = [op |-> "UltimateRocketEngine", propellant |-> params.propellant,
                        args |-> params, raised |-> c.raised, value |-> c.self,
                        obj |-> IF c.raised = "none" THEN c.self ELSE NoEngine]
            /\ rng' = c.rng

QueryNames ==
    {"analyze_engine_cycle", "analyze_nozzle_performance", "analyze_propellant_type",
     "get_comprehensive_results"}

Query(name, self) ==
    CASE name = "analyze_engine_cycle"       -> analyze_engine_cycle(self)
      [] name = "analyze_nozzle_performance" -> analyze_nozzle_performance(self)
      [] name = "analyze_propellant_type"    -> analyze_propellant_type(self)
      [] name = "get_comprehensive_results"  -> get_comprehensive_results(self)

\* A query method called on the session the caller holds
CallQuery(name) ==
    /\ call.obj.live
    /\ \E r \in {Query(name, call.obj)} :
           call' = [op |-> name, propellant |-> call.obj.params.propellant,
                    args |-> <<>>, raised |-> r.raised, value |-> r.value,
                    obj |-> r.self]

NextApi ==
    \/ (CallGamma /\ UNCHANGED <<engine, pdf_data, ctor, rng, thread, ret>>)
    \/ (CallCStar /\ UNCHANGED <<engine, pdf_data, ctor, rng, thread, ret>>)
    \/ (CallCombustionEfficiency /\ UNCHANGED <<engine, pdf_data, ctor, rng, thread, ret>>)
    \/ (CallNozzleEfficiency /\ UNCHANGED <<engine, pdf_data, ctor, rng, thread, ret>>)
    \/ (CallErosionRate /\ UNCHANGED <<engine, pdf_data, ctor, rng, thread, ret>>)
    \/ (CallSolidBurnRate /\ UNCHANGED <<engine, pdf_data, ctor, rng, thread, ret>>)
    \/ (CallHybridRegressionRate /\ UNCHANGED <<engine, pdf_data, ctor, rng, thread, ret>>)
    \/ (CallExplainDifferences /\ UNCHANGED <<engine, pdf_data, ctor, rng, thread, ret>>)
    \/ (NewSession /\ UNCHANGED <<engine, pdf_data, ctor, thread, ret>>)
    \/ \E name \in QueryNames :
          CallQuery(name) /\ UNCHANGED <<engine, pdf_data, ctor, rng, thread, ret>>

SpecApi == Init /\ [][NextApi]_vars

----------------------------------------------------------------------------
(* Two browser sessions whose script threads run at once.  A thread can be *)
(* descheduled between any two numpy calls of the constructor; the         *)
(* generator it seeds and draws from is the one every thread uses.         *)

\* How many times a browser session clicks UPDATE SIMULATION
MaxBuilds == 1

\* The thread of u between script runs
Idle(u) == [pc |-> "idle", self |-> NoEngine, noise |-> <<>>,
            builds |-> thread[u].builds]

\* Lines 2431-2444, 2067-2076: the button is clicked, __init__ runs up to and
\* including np.random.seed(42)
Begin(u) ==
    /\ thread[u].pc = "idle"
    /\ thread[u].builds < MaxBuilds
    /\ \E params \in SidebarParams :
          thread' = [thread EXCEPT ![u] = [pc |-> "seeded", self |-> InitSelf(params),
                                           noise |-> <<>>, builds |-> @.builds + 1]]
    /\ rng' = SeedGenerator(rng)
    /\ UNCHANGED <<engine, pdf_data, ctor, ret, call>>

\* Line 2079; an exception ends the script run
Theory(u) ==
    /\ thread[u].pc = "seeded"
    /\ \E r \in {calculate_theoretical_performance(thread[u].self)} :
           thread' = [thread EXCEPT ![u] =
                         IF r.raised # "none" THEN Idle(u)
                         ELSE [@ EXCEPT !.pc = "drawing", !.self = r.self]]
    /\ UNCHANGED <<engine, pdf_data, ctor, rng, ret, call>>

\* One of the three np.random.randn calls of lines 2174, 2184, 2188
Draw(u) ==
    /\ thread[u].pc = "drawing"
    /\ Len(thread[u].noise) < 3
    /\ rng.pos + NumSamples <= MaxPos
    /\ thread' = [thread EXCEPT ![u].noise = Append(@, Randn(rng, NumSamples).values)]
    /\ rng' = Randn(rng, NumSamples).rng
    /\ UNCHANGED <<engine, pdf_data, ctor, ret, call>>

\* The rest of lines 2080-2082 and the assignments of lines 2444-2446
Finish(u) ==
    /\ thread[u].pc = "drawing"
    /\ Len(thread[u].noise) = 3
    /\ \E r4 \in {FinishInit(thread[u].self, thread[u].noise)} :
           IF r4.raised # "none"
           THEN /\ thread' = [thread EXCEPT ![u] = Idle(u)]
                /\ UNCHANGED <<engine, pdf_data, ctor>>
           ELSE /\ engine' = [engine EXCEPT ![u] = r4.self]
                /\ pdf_data' = [pdf_data EXCEPT ![u] = NoPdf]
                /\ ctor' = [ctor EXCEPT ![u] = [live |-> TRUE,
                                                params |-> thread[u].self.params,
                                                advanced |-> FALSE]]
                /\ thread' = [thread EXCEPT ![u] = [Idle(u) EXCEPT !.pc = "rerun"]]
    /\ UNCHANGED <<rng, ret, call>>

\* The script run that st.rerun() (line 2446) asks for
Render(u) ==
    /\ thread[u].pc = "rerun"
    /\ rng.pos + MLDraws <= MaxPos
    /\ \E r \in {RunScript(engine[u], rng)} :
           /\ engine' = [engine EXCEPT ![u] = r.self]
           /\ rng' = r.rng
           /\ ret' = r.ret
    /\ thread' = [thread EXCEPT ![u] = Idle(u)]
    /\ UNCHANGED <<pdf_data, ctor, call>>

NextThreads ==
    \E u \in Users :
        \/ Begin(u)
        \/ Theory(u)
        \/ Draw(u)
        \/ Finish(u)
        \/ Render(u)

SpecThreads == Init /\ [][NextThreads]_vars

----------------------------------------------------------------------------
(* The formula library over its whole catalog.  The functions keep no      *)
(* state, so a behaviour is one call: a caller picks a function and its    *)
(* arguments, and `call` holds what came of it.                            *)

\* Every key of the propellant catalog, and one that is in none
\* The type tags of src/propellants.py, the small catalog that no module
\* imports
propellants_py ==
    [p \in {"RP-1/LOX", "LH2/LOX", "Slush Hydrogen/LOX", "MMH/NTO", "UDMH/NTO",
            "Aerozine-50/NTO", "H2O2/Kerosene", "LNG/LOX", "Aluminum/Ice (ALICE)",
            "Hydrogen Peroxide (98%)", "Hydrazine (N2H4)", "HTPB/AP (Solid)",
            "PBAN/AP (Solid)", "Double-Base (Solid)", "APCP (Solid)",
            "HTPB/N2O (Hybrid)", "HTPB/LOX (Hybrid)", "Paraffin/N2O (Hybrid)",
            "PE/LOX (Hybrid)"} |->
        IF p = "RP-1/LOX" THEN "Kerosene"
        ELSE IF p \in {"LH2/LOX", "Slush Hydrogen/LOX"} THEN "Hydrogen"
        ELSE IF p \in {"MMH/NTO", "UDMH/NTO", "Aerozine-50/NTO"} THEN "Hypergolic"
        ELSE IF p = "H2O2/Kerosene" THEN "Green"
        ELSE IF p = "LNG/LOX" THEN "Methane"
        ELSE IF p = "Aluminum/Ice (ALICE)" THEN "Experimental"
        ELSE IF p \in {"Hydrogen Peroxide (98%)", "Hydrazine (N2H4)"} THEN "Monopropellant"
        ELSE IF p \in {"HTPB/AP (Solid)", "PBAN/AP (Solid)", "Double-Base (Solid)",
                       "APCP (Solid)"} THEN "Solid"
        ELSE "Hybrid"]

LibPropellants == PropellantKeys \cup {UnknownPropellant}

\* Chamber pressures, bar
LibPc == {0, 20, 35, 70, 200}

\* O/F ratios (1e-2) for a propellant: zero, the two thresholds of its gamma
\* triple and the value just under each, its optimum, the sidebar's default
\* and a very large one
LibOf(p) ==
    IF p \notin PropellantKeys THEN {250}
    ELSE LET o == PROPELLANTS[p].optimal_of
         IN  {0, 250, 2000, o} \cup
             (IF o = 0 THEN {}
              ELSE {(o * 8) \div 10 - 1, (o * 8) \div 10,
                    (o * 12) \div 10 - 1, (o * 12) \div 10})

\* Nozzle expansion ratios
LibExpansion == {1, 25, 29, 30, 59, 60, 200}

\* Oxidizer mass fluxes, kg/m^2/s
LibFlux == {50, 200, 400}

\* A theoretical value of which 1e-2 percent is one unit, and experimental
\* values around it: the deviations on, just above and just below each
\* threshold of lines 777-1063
LibTheoretical == 10000

LibExperimental ==
    {LibTheoretical + d + e : d \in {-1000, -500, -300, 0, 200, 500, 1000},
                              e \in {-1, 0, 1}}

LibParameters ==
    {"thrust", "isp", "pressure", "temperature", "efficiency", "mdot", ""}

\* Deviation dicts of up to two entries, 1e-2 percent: values on and beside
\* the grade limits, of either sign
LibDeviationValues ==
    {-2000, -1000, -999, -500, -499, -200, -199, 0, 199, 200, 201, 499, 500, 800, 999, 1000}

LibDeviations ==
    {<<>>} \cup {<<d>> : d \in LibDeviationValues}
           \cup {<<d, e>> : d, e \in LibDeviationValues}

\* Chamber pressures on both sides of each growth-rate limit, bar
LibAcousticPc == {0, 1, 5, 10, 20, 27, 28, 35, 50, 70, 100, 150, 200}

\* <<chamber_length, chamber_diameter>>, 1e-6 m
LibChambers == {<<100000, 60000>>, <<1000000, 500000>>}

\* Chamber pressures at which the efficiency stays under its cap, bar
LibEfficiencyPc == {0, 20, 35}

\* The four injector types of the table and one that is not in it
LibInjectors == {"coaxial", "like-on-like", "impinging", "swirl", "pintle"}

NextLib ==
    /\ call.op = "none"
    /\ \/ \E p \in LibPropellants : \E of \in LibOf(p) :
              call' = Called("calculate_gamma", p, <<p, of>>, calculate_gamma(p, of))
       \/ \E p \in LibPropellants, Pc \in LibPc : \E of \in LibOf(p) :
              call' = Called("calculate_c_star", p, <<p, Pc, of>>,
                             calculate_c_star(p, Pc, of))
       \/ \E eps \in LibExpansion, Pc \in LibPc \cup {1000} :
              call' = Called("calculate_nozzle_efficiency", "", <<eps, Pc, 1, 122>>,
                             calculate_nozzle_efficiency(eps, Pc, 1, 122))
       \/ \E p \in LibPropellants, Pc \in LibPc :
              call' = Called("calculate_solid_burn_rate", p, <<p, Pc>>,
                             calculate_solid_burn_rate(p, Pc))
                      @@ [exact |-> SolidBurnRateIsExact(p, Pc)]
       \/ \E p \in LibPropellants, G \in LibFlux, Pc \in LibPc :
              call' = Called("calculate_hybrid_regression_rate", p, <<p, G, Pc>>,
                             calculate_hybrid_regression_rate(p, G, Pc))
                      @@ [exact |-> HybridRegressionRateIsExact(p, G)]
       \/ \E experimental \in LibExperimental, parameter \in LibParameters :
              call' = Called("explain_differences", "",
                             <<LibTheoretical, experimental, parameter>>,
                             explain_differences(LibTheoretical, experimental,
                                                 parameter, ApiBase))
       \/ \E deviations \in LibDeviations :
              call' = Called("get_overall_assessment", "", <<deviations>>,
                             Ok(get_overall_assessment(deviations)))
       \/ \E p \in LibPropellants, Pc \in LibAcousticPc, g \in LibChambers :
              call' = Called("analyze_acoustic_modes", p, <<Pc, g[1], g[2], p>>,
                             Ok(analyze_acoustic_modes(Pc, g[1], g[2], p)))
       \/ \E p \in LibPropellants, Pc \in LibEfficiencyPc, inj \in LibInjectors :
          \E of \in LibOf(p) :
              call' = Called("calculate_combustion_efficiency", p, <<p, Pc, of, inj>>,
                             calculate_combustion_efficiency(p, Pc, of, inj))
    /\ UNCHANGED <<engine, pdf_data, ctor, rng, thread, ret>>

SpecLib == Init /\ [][NextLib]_vars

----------------------------------------------------------------------------
(* Properties *)

\* C1: in every stored session, explanations[p] for thrust, ISP and pressure
\* is the explainer's result for that parameter's own theoretical value and
\* the mean of its own experimental series, and the deviation it states
\* agrees with deviations[p].
C1_ExplanationsOfOwnParameter ==
    \A u \in Users :
        engine[u].live =>
            LET e == engine[u]
                theoretical  == [thrust   |-> e.F_theoretical,
                                 isp      |-> e.Isp_theoretical,
                                 pressure |-> e.params.Pc * 1000]
                experimental == [thrust   |-> Mean(e.F_experimental),
                                 isp      |-> Mean(e.Isp_experimental),
                                 pressure |-> Mean(e.Pc_experimental)]
            IN  \A p \in {"thrust", "isp", "pressure"} :
                    /\ e.explanations[p] =
                           explain_differences(theoretical[p], experimental[p],
                                               p, e.params).value
                    /\ e.explanations[p].deviation = FormatDeviation(e.deviations[p])

\* C2: calculate_combustion_efficiency returns a value in [0.85, 0.995] and
\* does not raise, for every catalog propellant, pressure, O/F ratio and
\* injector type.
C2_EfficiencyBoundedForCatalog ==
    (call.op = "calculate_combustion_efficiency" /\ call.propellant \in PropellantKeys)
        => (call.raised = "none" /\ call.value >= 8500 /\ call.value <= 9950)

\* C3: no division by zero reaches the caller of explain_differences or of
\* the session constructor.
C3_NoDivideByZeroReachesCaller ==
    call.op \in {"explain_differences", "UltimateRocketEngine"}
        => call.raised # "ZeroDivisionError"

\* C4: constructing a session with a propellant, material, cycle or nozzle
\* key that is in no catalog fails with a lookup error at construction, and
\* the caller gets no session.
C4_UnknownKeyFailsAtConstruction ==
    (/\ call.op = "UltimateRocketEngine"
     /\ \/ call.args.propellant \notin PropellantKeys
        \/ call.args.material \notin MaterialKeys
        \/ call.args.cycle \notin CycleKeys
        \/ call.args.nozzle_type \notin NozzleKeys)
        => (call.raised = "KeyError" /\ ~call.obj.live)

\* C5: a constructor given a propellant or material key that is in no
\* catalog raises the lookup error before gamma, c*, the geometry or any
\* other derived field is computed, and the caller gets no session.
C5_LookupsPrecedeDerivedFields ==
    (/\ call.op = "UltimateRocketEngine"
     /\ \/ call.args.propellant \notin PropellantKeys
        \/ call.args.material \notin MaterialKeys)
        => (/\ call.raised = "KeyError"
            /\ ~call.obj.live
            /\ call.value.attrs = InitSelf(call.args).attrs)

\* C5's case: a known propellant with an unknown material
C5_UnknownMaterialRejected ==
    /\ call.op = "UltimateRocketEngine"
    /\ call.args.propellant \in PropellantKeys
    /\ call.args.material \notin MaterialKeys
    /\ call.raised = "KeyError"

\* C6: every formula-library function that is given a propellant key raises
\* the lookup error when the key is in no catalog.
C6_AbsentPropellantRaises ==
    (/\ call.op \in {"calculate_gamma", "calculate_c_star",
                     "calculate_combustion_efficiency", "calculate_erosion_rate",
                     "calculate_solid_burn_rate", "calculate_hybrid_regression_rate"}
     /\ call.propellant \notin PropellantKeys)
        => call.raised = "KeyError"

\* C7: two stored sessions constructed from identical parameters have
\* identical series and deviations, whatever the generator had been used for
\* before either construction.
C7_SameParamsSameSeries ==
    \A u, v \in Users :
        (engine[u].live /\ engine[v].live /\ ctor[u].params = ctor[v].params)
            => /\ engine[u].F_experimental = engine[v].F_experimental
               /\ engine[u].Pc_experimental = engine[v].Pc_experimental
               /\ engine[u].mdot_experimental = engine[v].mdot_experimental
               /\ engine[u].Isp_experimental = engine[v].Isp_experimental
               /\ engine[u].Tc_experimental = engine[v].Tc_experimental
               /\ engine[u].deviations = engine[v].deviations

\* C7's case: equal parameters, one construction on a generator nothing had
\* been drawn from, the other after draws
C7_SameParamsDifferentHistory ==
    /\ engine[1].live /\ engine[2].live
    /\ ctor[1].params = ctor[2].params
    /\ ctor[1].advanced # ctor[2].advanced

\* C8: a session constructed while another thread is constructing one has
\* the series it has when constructed alone.
C8_InterleavedSameAsAlone ==
    \A u \in Users :
        engine[u].live =>
            LET alone == UltimateRocketEngine(ctor[u].params, rng).self
            IN  /\ engine[u].F_experimental = alone.F_experimental
                /\ engine[u].Pc_experimental = alone.Pc_experimental
                /\ engine[u].mdot_experimental = alone.mdot_experimental

\* C9: a query method leaves the session as it was, and the same query
\* called again returns what it returned.
C9_QueriesDoNotMutate ==
    [][\A name \in QueryNames :
          (call.obj.live /\ call'.op = name) =>
              /\ call'.obj = call.obj
              /\ Query(name, call'.obj).raised = call'.raised
              /\ Query(name, call'.obj).value = call'.value]_vars

\* C9's case: a query has been answered for a held session
C9_QueryAnswered ==
    /\ call.op \in QueryNames
    /\ call.raised = "none"
    /\ call.obj.live

\* C10: the params of a stored session are the params it was constructed
\* with, in every state of the dashboard.
C10_ParamsNeverMutated ==
    \A u \in Users : engine[u].live => engine[u].params = ctor[u].params

\* C11: construction happens once per session and whole: every stored
\* session has all its derived fields, a failed construction stores nothing,
\* and while a browser session keeps the session it constructed no derived
\* field of it changes.
C11_ConstructedOnceAndWhole ==
    /\ [](\A u \in Users : engine[u].live => DerivedFields \subseteq engine[u].attrs)
    /\ [][\A u \in Users :
            (engine[u].live /\ ctor'[u] = ctor[u])
                => [engine'[u] EXCEPT !.params = engine[u].params] = engine[u]]_vars

\* C11's case: one browser session holds a session, the other none, and the
\* last construction failed after seeding the generator
C11_FailedConstructionStoresNothing ==
    /\ engine[1].live
    /\ ~engine[2].live
    /\ rng = [seed |-> FixedSeed, pos |-> 0]

\* C12: calculate_c_star returns a strictly positive value for every catalog
\* propellant, every chamber pressure and every O/F ratio.
C12_CStarPositive ==
    (call.op = "calculate_c_star" /\ call.propellant \in PropellantKeys)
        => (call.raised = "none" /\ call.value > 0)

\* C13: at Pc = 20 (or Pc <= 0) and of_ratio = optimal_of (or optimal_of = 0)
\* calculate_c_star is the record's base c* times the temperature factor
\* alone, and the base c* itself when the record's combustion_temp is 3500.
C13_CStarFactorsAreOneOnTheirConditions ==
    (/\ call.op = "calculate_c_star"
     /\ call.propellant \in PropellantKeys
     /\ call.args[2] = 20 \/ call.args[2] <= 0
     /\ \/ call.args[3] = PROPELLANTS[call.propellant].optimal_of
        \/ PROPELLANTS[call.propellant].optimal_of = 0)
        => LET props == PROPELLANTS[call.propellant]
           IN  /\ call.raised = "none"
               /\ call.value = MulDiv(props.c_star * 10,
                                      FX + (props.combustion_temp - 3500), FX)
               /\ props.combustion_temp = 3500 => call.value = props.c_star * 10

\* C13's case: RP-1/LOX at 20 bar and its optimal O/F gives 1800 * 1.02
C13_Rp1AtReference ==
    /\ call.op = "calculate_c_star"
    /\ call.args = <<"RP-1/LOX", 20, 230>>
    /\ call.value = 18360

\* C14: calculate_gamma returns the middle value of the triple for a record
\* with optimal_of = 0; otherwise the low value when of_ratio < 0.8 optimal_of,
\* the middle value when 0.8 optimal_of <= of_ratio < 1.2 optimal_of, and the
\* high value when of_ratio >= 1.2 optimal_of.
C14_GammaByThresholds ==
    (call.op = "calculate_gamma" /\ call.propellant \in PropellantKeys)
        => LET props == PROPELLANTS[call.propellant]
               of    == call.args[2]
           IN  /\ call.raised = "none"
               /\ call.value =
                      IF props.optimal_of = 0 THEN props.gamma_range[2]
                      ELSE IF of * 10 < 8 * props.optimal_of THEN props.gamma_range[1]
                      ELSE IF of * 10 < 12 * props.optimal_of THEN props.gamma_range[2]
                      ELSE props.gamma_range[3]

\* C15: calculate_nozzle_efficiency returns a value in [0.90, 0.97] for every
\* expansion ratio and every chamber pressure >= 0.
C15_NozzleEfficiencyBounded ==
    call.op = "calculate_nozzle_efficiency"
        => (call.raised = "none" /\ call.value >= 9000 /\ call.value <= 9700)

\* C15's case: at 1000 bar and expansion ratio 60 the losses take the
\* efficiency under the floor
C15_FloorApplied ==
    /\ call.op = "calculate_nozzle_efficiency"
    /\ call.args[1] = 60 /\ call.args[2] = 1000
    /\ call.value = 9000

\* C16: calculate_solid_burn_rate returns 0 for every propellant that is not
\* a solid, and for every solid record at Pc = 70 the record's reference
\* burn_rate.
C16_SolidBurnRateAtReference ==
    (call.op = "calculate_solid_burn_rate" /\ call.propellant \in PropellantKeys)
        => LET props == PROPELLANTS[call.propellant]
           IN  /\ call.raised = "none"
               /\ ~TypeHas(props.type, "Solid") => call.value = 0
               /\ (TypeHas(props.type, "Solid") /\ call.args[2] = 70)
                      => (call.value = props.burn_rate * 100 /\ call.exact)

\* C17: calculate_hybrid_regression_rate returns 0 for every propellant that
\* is not a hybrid; for a hybrid record the result is that of the same call
\* at any other chamber pressure, and at flux 200 it is the record's
\* reference regression_rate.
C17_HybridRegressionRateIgnoresPc ==
    (call.op = "calculate_hybrid_regression_rate" /\ call.propellant \in PropellantKeys)
        => LET props == PROPELLANTS[call.propellant]
           IN  /\ call.raised = "none"
               /\ ~TypeHas(props.type, "Hybrid") => call.value = 0
               /\ \A Pc \in LibPc :
                      calculate_hybrid_regression_rate(call.propellant, call.args[2], Pc)
                          = [raised |-> call.raised, value |-> call.value]
               /\ (TypeHas(props.type, "Hybrid") /\ call.args[2] = 200)
                      => (call.value = props.regression_rate * 100 /\ call.exact)

\* C17's case: a hybrid record at flux 200 and zero chamber pressure
C17_HybridAtZeroPressure ==
    /\ call.op = "calculate_hybrid_regression_rate"
    /\ call.args = <<"Paraffin/N2O (Hybrid)", 200, 0>>
    /\ call.value = 2500

\* C18: the explainer is a three-way table per parameter kind with strict
\* comparisons: "higher" iff deviation > hi, "lower" iff deviation < lo,
\* "within" otherwise, with (hi, lo) = (5, -5) for thrust, (2, -3) for isp,
\* (5, -5) for pressure, (10, -10) for temperature, (5, -10) for efficiency;
\* any other kind gets the generic record whatever the deviation.
C18_ExplainerDecisionTable ==
    call.op = "explain_differences"
        => LET deviation == ((call.args[2] - call.args[1]) * FX) \div call.args[1]
               kind      == call.args[3]
               hi == [thrust |-> 500, isp |-> 200, pressure |-> 500,
                      temperature |-> 1000, efficiency |-> 500]
               lo == [thrust |-> -500, isp |-> -300, pressure |-> -500,
                      temperature |-> -1000, efficiency |-> -1000]
           IN  /\ call.raised = "none"
               /\ kind \in DOMAIN hi
                      => /\ call.value.text[1] = kind
                         /\ call.value.text[2] = "higher" <=> deviation > hi[kind]
                         /\ call.value.text[2] = "lower" <=> deviation < lo[kind]
                         /\ call.value.text[2] = "within"
                                <=> (lo[kind] <= deviation /\ deviation <= hi[kind])
               /\ kind \notin DOMAIN hi
                      => (call.value.text = <<"generic", "any">>
                          /\ call.value.severity = "PARAMETER VARIATION")

\* C18's case: an isp deviation of exactly -3 percent is nominal
C18_IspOnLowerThreshold ==
    /\ call.op = "explain_differences"
    /\ call.args = <<LibTheoretical, LibTheoretical - 300, "isp">>
    /\ call.value.severity = "NOMINAL ISP"
    /\ call.value.deviation = [sign |-> "-", tenths |-> 30]

\* C19: the explainer is a function of (theoretical, experimental, parameter
\* kind) alone: whatever engine_params is passed and whatever was called
\* before, a call returns the record (or raises the exception) that the
\* triple determines, a call repeated with the same triple returns what it
\* returned, and a call changes nothing a session or the generator holds.
C19_ExplainerIsPure ==
    /\ [](call.op = "explain_differences"
            => explain_differences(call.args[1], call.args[2], call.args[3], ApiBase)
                   = [raised |-> call.raised, value |-> call.value])
    /\ [][call'.op = "explain_differences"
            => /\ UNCHANGED <<engine, pdf_data, ctor, rng, thread, ret>>
               /\ (call.op = "explain_differences" /\ call'.args = call.args)
                      => (call'.raised = call.raised /\ call'.value = call.value)]_vars

\* C19's case: a pressure deviation explained for engine parameters that
\* differ from the reference ones in the chamber pressure
C19_ExplainedForOtherParams ==
    /\ call.op = "explain_differences"
    /\ call.args = <<1550, 1700, "pressure">>
    /\ call.engine_params.Pc = 0
    /\ call.value.severity = "HIGHER PRESSURE"

\* C20: get_overall_assessment grades the mean of the absolute values of the
\* given deviations: A+ iff mean < 2, B+ iff 2 <= mean < 5, C iff
\* 5 <= mean < 10, D iff mean >= 10, each grade with its verdict and action;
\* the signs of the deviations do not change the result.
C20_GradeByMeanAbsoluteDeviation ==
    (call.op = "get_overall_assessment" /\ call.args[1] # <<>>)
        => LET deviations == call.args[1]
               n     == Len(deviations)
               total == SumSeq([i \in 1..n |-> IF deviations[i] < 0 THEN -deviations[i]
                                                                    ELSE deviations[i]])
               flipped == [i \in 1..n |-> -deviations[i]]
           IN  /\ call.raised = "none"
               /\ call.value.grade = "A+" <=> total < 200 * n
               /\ call.value.grade = "B+" <=> (200 * n <= total /\ total < 500 * n)
               /\ call.value.grade = "C" <=> (500 * n <= total /\ total < 1000 * n)
               /\ call.value.grade = "D" <=> total >= 1000 * n
               /\ call.value.grade = "A+"
                      => (call.value.verdict = "EXCELLENT"
                          /\ call.value.action = "Ready for flight operations")
               /\ call.value.grade = "B+"
                      => (call.value.verdict = "GOOD"
                          /\ call.value.action = "Continue with monitoring")
               /\ call.value.grade = "C"
                      => (call.value.verdict = "REQUIRES ATTENTION"
                          /\ call.value.action = "Review design and testing parameters")
               /\ call.value.grade = "D"
                      => (call.value.verdict = "NEEDS IMPROVEMENT"
                          /\ call.value.action
                                 = "Major redesign or parameter adjustment needed")
               /\ get_overall_assessment(flipped) = call.value

\* C20's case: deviations of -2 and +2 percent, mean absolute value exactly 2
C20_MeanExactlyTwo ==
    /\ call.op = "get_overall_assessment"
    /\ call.args[1] = <<-200, 200>>
    /\ call.value.grade = "B+"

\* C21: the acoustic analyzer's speed of sound is 1400 m/s for every
\* Hydrogen record of the catalog (LH2/LOX, Slush Hydrogen/LOX), 1200 m/s for
\* RP-1/LOX and H2O2/Kerosene, and 1300 m/s for all others; the speed shows
\* in the 1L frequency, speed / (2 * chamber_length).
C21_SoundSpeedByFamily ==
    (call.op = "analyze_acoustic_modes" /\ call.propellant \in PropellantKeys)
        => LET speed == IF PROPELLANTS[call.propellant].type = "Hydrogen" THEN 1400
                        ELSE IF call.propellant \in {"RP-1/LOX", "H2O2/Kerosene"} THEN 1200
                        ELSE 1300
           IN  call.value.modes["1L"].frequency = (speed * 1000000) \div (2 * call.args[2])

\* C22: the growth rates are 0.05, 0.12, 0.03 for 1L, 1T, 1R, each times the
\* shared pressure factor; a mode is listed as dangerous iff its growth rate
\* is strictly greater than 0.10; the stability margin is Excellent/95 iff
\* the maximum growth rate is < 0.05, Good/80 iff 0.05 <= max < 0.10,
\* Poor/50 iff max >= 0.10.
C22_DangerousModesAndMargin ==
    call.op = "analyze_acoustic_modes"
        => LET modes  == call.value.modes
               coeff  == [m \in {"1L", "1T", "1R"} |->
                            IF m = "1L" THEN 500 ELSE IF m = "1T" THEN 1200 ELSE 300]
               listed == {call.value.dangerous_modes[i] :
                             i \in DOMAIN call.value.dangerous_modes}
               most   == CHOOSE g \in {modes[m].growth_rate : m \in DOMAIN coeff} :
                             \A m \in DOMAIN coeff : modes[m].growth_rate <= g
               margin == call.value.stability_margin
           IN  /\ \A m \in DOMAIN coeff :
                      /\ modes[m].growth_rate = (coeff[m] * PcPow08(call.args[1])) \div FX
                      /\ m \in listed <=> modes[m].growth_rate > 1000
               /\ margin = [margin |-> "Excellent", value |-> 95] <=> most < 500
               /\ margin = [margin |-> "Good", value |-> 80]
                      <=> (500 <= most /\ most < 1000)
               /\ margin = [margin |-> "Poor", value |-> 50] <=> most >= 1000

\* C22's case: at 27 bar the largest growth rate is just under 0.10
C22_JustBelowDangerous ==
    /\ call.op = "analyze_acoustic_modes"
    /\ call.args[1] = 27
    /\ call.value.modes["1T"].growth_rate = 975
    /\ call.value.dangerous_modes = <<>>
    /\ call.value.stability_margin.margin = "Good"

\* C23: every record of the propellant catalog has a type tag that is one of
\* Kerosene, Hydrogen, Hypergolic, Methane, Green, Experimental,
\* Monopropellant, Solid, Hybrid: so has the record of every catalog
\* propellant a library method is called for.
C23_TypeTagsAreTheNine ==
    LET tags == {"Kerosene", "Hydrogen", "Hypergolic", "Methane", "Green",
                 "Experimental", "Monopropellant", "Solid", "Hybrid"}
    IN  /\ call.propellant \in PropellantKeys
               => PROPELLANTS[call.propellant].type \in tags
        /\ call.propellant \in DOMAIN propellants_py
               => propellants_py[call.propellant] \in tags

\* C24: a constructed session carries the family correction exactly once,
\* also after any queries: for a Solid propellant the mass flow is 0.95 x
\* (Pc * At / c*), the ISP is 0.92 x the uncorrected ISP and burn_rate is
\* set; for a Hybrid the ISP is 0.94 x the uncorrected ISP, the mass flow is
\* unmodified and regression_rate is set from oxidizer flux 200; for every
\* other propellant mass flow and ISP are unmodified and neither rate is set.
C24_FamilyCorrectionOnce ==
    call.obj.live
        => LET self   == call.obj
               params == self.params
               type   == PROPELLANTS[params.propellant].type
               mdot   == MulDiv(params.Pc * self.At, 1000, self.c_star)
               Isp    == IspOf(self.F_theoretical, mdot)
           IN  /\ type = "Solid"
                      => /\ self.mdot_theoretical = MulDiv(mdot, 9500, FX)
                         /\ self.Isp_theoretical = MulDiv(Isp, 9200, FX)
                         /\ "burn_rate" \in self.attrs
                         /\ "regression_rate" \notin self.attrs
                         /\ Ok(self.burn_rate)
                                = calculate_solid_burn_rate(params.propellant, params.Pc)
               /\ type = "Hybrid"
                      => /\ self.mdot_theoretical = mdot
                         /\ self.Isp_theoretical = MulDiv(Isp, 9400, FX)
                         /\ "regression_rate" \in self.attrs
                         /\ "burn_rate" \notin self.attrs
                         /\ Ok(self.regression_rate)
                                = calculate_hybrid_regression_rate(params.propellant, 200,
                                                                   params.Pc)
               /\ type \notin {"Solid", "Hybrid"}
                      => /\ self.mdot_theoretical = mdot
                         /\ self.Isp_theoretical = Isp
                         /\ "burn_rate" \notin self.attrs
                         /\ "regression_rate" \notin self.attrs

\* C24's case: a solid-propellant session that has answered a query
C24_SolidSessionQueried ==
    /\ call.op \in QueryNames
    /\ call.obj.live
    /\ call.obj.params.propellant = "HTPB/AP (Solid)"
    /\ call.obj.burn_rate = 6498

\* C25: for a Solid propellant the O/F factor and the injector factor of
\* calculate_combustion_efficiency are both 1.0: the call returns what a call
\* for the same propellant and Pc returns with any other of_ratio and
\* injector_type.  For a non-solid propellant the injector factor is 1.00,
\* 0.98, 0.97, 0.96 for coaxial, like-on-like, impinging, swirl and 0.97 for
\* any other type: the result is the coaxial result times that factor
\* (where the coaxial result is inside the clamp 0.85 .. 0.995).
C25_SolidsIgnoreOfAndInjector ==
    (/\ call.op = "calculate_combustion_efficiency"
     /\ call.propellant \in PropellantKeys
     /\ call.raised = "none")
        => LET p   == call.args[1]
               Pc  == call.args[2]
               inj == call.args[4]
               factor == IF inj = "coaxial" THEN 10000
                         ELSE IF inj = "like-on-like" THEN 9800
                         ELSE IF inj = "swirl" THEN 9600
                         ELSE 9700
               coaxial == calculate_combustion_efficiency(p, Pc, call.args[3], "coaxial").value
           IN  /\ PROPELLANTS[p].type = "Solid"
                      => \A of \in LibOf(p), other \in LibInjectors :
                             calculate_combustion_efficiency(p, Pc, of, other)
                                 = Ok(call.value)
               /\ (PROPELLANTS[p].type # "Solid" /\ 8500 < coaxial /\ coaxial < 9950)
                      => call.value = Max(8500, MulDiv(coaxial, factor, FX))

\* C25's case: a solid propellant, an O/F ratio far from any optimum and the
\* injector with the lowest factor
C25_SolidWithSwirlInjector ==
    /\ call.op = "calculate_combustion_efficiency"
    /\ call.args = <<"APCP (Solid)", 0, 2000, "swirl">>
    /\ call.value = 9702

\* C26: the divergence loss of calculate_nozzle_efficiency is 0.01 iff the
\* expansion ratio is < 30, 0.02 iff 30 <= ratio < 60, 0.03 iff ratio >= 60:
\* the result is 0.98 less the boundary-layer loss less that step, floored
\* at 0.90.
C26_DivergenceLossSteps ==
    call.op = "calculate_nozzle_efficiency"
        => LET ratio == call.args[1]
               boundary_loss == (150 * ISqrt(call.args[2] * 2000000)) \div FX
               step == IF ratio < 30 THEN 100
                       ELSE IF 30 <= ratio /\ ratio < 60 THEN 200
                       ELSE 300
           IN  call.value = Max(9000, 9800 - boundary_loss - step)

\* C26's case: an expansion ratio of exactly 30 at zero pressure, where the
\* boundary-layer loss is zero
C26_RatioThirty ==
    /\ call.op = "calculate_nozzle_efficiency"
    /\ call.args[1] = 30
    /\ call.args[2] = 0
    /\ call.value = 9600

\* C27: for every session constructed with strictly positive thrust, chamber
\* pressure and expansion ratio the derived geometry is strictly positive
\* and keeps the fixed design ratios: throat area = thrust / (Pc * 1e5 *
\* 1.5), chamber diameter = 2.5 x throat diameter, chamber length = 1.5 x
\* chamber diameter, exit area = throat area x expansion ratio, nozzle
\* length = 2 x exit diameter, and exit diameter >= throat diameter whenever
\* the expansion ratio is >= 1.
C27_GeometryRatios ==
    (/\ call.obj.live
     /\ call.obj.params.thrust > 0
     /\ call.obj.params.Pc > 0
     /\ call.obj.params.expansion_ratio > 0)
        => LET self   == call.obj
               params == self.params
           IN  /\ \A x \in {self.At, self.Dt, self.Dc, self.Lc, self.Ae, self.De,
                              self.Ln} : x > 0
               /\ self.At = MulDiv(params.thrust, 20000, 3 * params.Pc)
               /\ self.Dc = MulDiv(self.Dt, 25, 10)
               /\ self.Lc = MulDiv(self.Dc, 15, 10)
               /\ self.Ae = self.At * params.expansion_ratio
               /\ self.Ln = 2 * self.De
               /\ params.expansion_ratio >= 1 => self.De >= self.Dt

\* C27's case: a session whose expansion ratio is 1, where exit and throat
\* diameters coincide
C27_ExpansionRatioOne ==
    /\ call.obj.live
    /\ call.obj.params.expansion_ratio = 1
    /\ call.obj.De = call.obj.Dt
    /\ call.obj.Dt > 0

\* C28: a session's computed results do not depend on the injector_type,
\* cycle or nozzle_type parameters: its efficiencies, experimental series,
\* deviations, safety factors and explanations are those of the session
\* constructed from the same parameters with these three entries set to
\* coaxial, Gas Generator and Conical (15 deg).
C28_ResultsIgnoreInjectorCycleNozzle ==
    call.obj.live
        => LET self == call.obj
               same == [self.params EXCEPT !.injector_type = "coaxial",
                                           !.cycle = "Gas Generator",
                                           !.nozzle_type = "Conical (15 deg)"]
           IN  same \in ApiParams
                   => LET other == NewEngine(same, [seed |-> FixedSeed, pos |-> 0]).self
                      IN  /\ self.combustion_efficiency = other.combustion_efficiency
                          /\ self.nozzle_efficiency = other.nozzle_efficiency
                          /\ self.efficiencies = other.efficiencies
                          /\ self.F_experimental = other.F_experimental
                          /\ self.Pc_experimental = other.Pc_experimental
                          /\ self.mdot_experimental = other.mdot_experimental
                          /\ self.Isp_experimental = other.Isp_experimental
                          /\ self.Tc_experimental = other.Tc_experimental
                          /\ self.deviations = other.deviations
                          /\ self.safety_factors = other.safety_factors
                          /\ self.explanations = other.explanations

\* C28's case: a session constructed with a swirl injector, an expander
\* cycle and a bell nozzle
C28_SessionWithOtherThree ==
    /\ call.obj.live
    /\ call.obj.params.injector_type = "swirl"
    /\ call.obj.params.cycle = "Expander"
    /\ call.obj.params.nozzle_type = "Bell (Rao)"
    /\ call.obj.efficiencies.combustion = 9940

\* C29: after any sequence of UPDATE SIMULATION and GENERATE PDF presses
\* from engine = None and pdf_data = None, pdf_data is set only if engine is
\* set, and a stored pdf_data is the report of the engine that is currently
\* stored; GENERATE PDF with no engine leaves pdf_data unchanged.
C29_PdfOfStoredEngine ==
    /\ [](\A u \in Users :
             pdf_data[u].made
                 => /\ engine[u].live
                    /\ pdf_data[u]
                           = create_report(engine[u].params,
                                           get_comprehensive_results(engine[u]).value,
                                           engine[u].explanations))
    /\ [][\A u \in Users :
             (~engine[u].live /\ ~engine'[u].live) => pdf_data'[u] = pdf_data[u]]_vars

\* C29's case: one browser session holds the report of a bell-nozzle engine,
\* the other holds an engine and no report
C29_ReportAfterReplacement ==
    /\ pdf_data[1].made
    /\ pdf_data[1].nozzle_type = "Bell (Rao)"
    /\ engine[2].live
    /\ ~pdf_data[2].made

\* C30: for every chamber pressure > 0 the dangerous-mode list of
\* analyze_acoustic_modes is one of [], [1T], [1L, 1T], [1L, 1T, 1R]; when
\* it is not empty the stability margin is Poor and the recommendations hold
\* an "unstable" entry for exactly the listed modes; the recommendations
\* list is never empty.
C30_DangerousModesNested ==
    (call.op = "analyze_acoustic_modes" /\ call.args[1] > 0)
        => LET dangerous == call.value.dangerous_modes
               recs      == call.value.recommendations
               listed    == {dangerous[i] : i \in DOMAIN dangerous}
               unstable  == {recs[i][1] : i \in {j \in DOMAIN recs : recs[j][2] = "unstable"}}
           IN  /\ dangerous \in {<<>>, <<"1T">>, <<"1L", "1T">>, <<"1L", "1T", "1R">>}
               /\ dangerous # <<>>
                      => /\ call.value.stability_margin.margin = "Poor"
                         /\ unstable = listed
               /\ recs # <<>>

\* C30's case: at 100 bar the longitudinal and tangential modes are listed
C30_TwoModesDangerous ==
    /\ call.op = "analyze_acoustic_modes"
    /\ call.args[1] = 100
    /\ call.value.dangerous_modes = <<"1L", "1T">>
    /\ call.value.recommendations
           = << <<"1L", "unstable">>, <<"1T", "unstable">>, <<"1R", "marginal">> >>
====
